---- MODULE Spec2Model ----
(***************************************************************************)
(* Model of the ASTU SmartDesk backend RAG engine:                         *)
(*   backend/utils/textProcessing.ts    (cleanText, chunkText,             *)
(*       extractTextFromFile)                                              *)
(*   backend/controllers/chatController.ts (askQuestion, uploadDocument,   *)
(*       uploadFile, getDocuments, deleteDocument, getChatHistory,         *)
(*       getChatSession, deleteChatSession)                                *)
(*   backend/models/ChatHistory.ts, backend/models/Document.ts             *)
(*                                                                         *)
(* Text is a sequence of one-character strings.  Positions inside the text *)
(* operators are 0-based as in the TypeScript source: the character at     *)
(* position p of s is s[p + 1].                                            *)
(*                                                                         *)
(* A request handler is a sequence of steps, one per awaited call. The     *)
(* model follows two requests at a time: call, whose response is observed, *)
(* and peer, a request that arrives while call is being handled and of     *)
(* which the steps that read or write a store are followed. The steps of   *)
(* the two, and of the chunk promises of the ingestions, interleave freely.*)
(***************************************************************************)
EXTENDS Integers, Sequences, FiniteSets, TLC

\* ------------------------------------------------------------------------
\* Generic helpers
\* ------------------------------------------------------------------------

Min(a, b) == IF a <= b THEN a ELSE b

Max(a, b) == IF a >= b THEN a ELSE b

Abs(x) == IF x < 0 THEN 0 - x ELSE x

Range(s) == {s[i] : i \in 1..Len(s)}

\* The function f of domain 1..n as a sequence value.
AsSeq(f) == SubSeq(f, 1, Len(f))

\* The subsequence of s at the indices i (ascending) for which keep[i] holds.
FilterIdx(s, keep) ==
    LET idx == SelectSeq(AsSeq([i \in 1..Len(s) |-> i]), LAMBDA i : keep[i])
    IN  AsSeq([j \in 1..Len(idx) |-> s[idx[j]]])

\* String.prototype.substring(a, b) for 0 <= a <= b <= length.
Substring(s, a, b) == SubSeq(s, a + 1, b)

\* ------------------------------------------------------------------------
\* backend/utils/textProcessing.ts
\* ------------------------------------------------------------------------

\* The 25 code points String.prototype.trim() removes: U+0009..U+000D, U+0020,
\* U+00A0, U+1680, U+2000..U+200A, U+2028, U+2029, U+202F, U+205F, U+3000 and
\* U+FEFF. A character that a string of this module cannot hold is written by
\* the name of its code point.
WhiteSpace ==
    {"\t", "\n", "U+000B", "\f", "\r", " ", "U+00A0", "U+1680",
     "U+2000", "U+2001", "U+2002", "U+2003", "U+2004", "U+2005", "U+2006",
     "U+2007", "U+2008", "U+2009", "U+200A", "U+2028", "U+2029", "U+202F",
     "U+205F", "U+3000", "U+FEFF"}

Blank == {" ", "\t"}

\* String.prototype.trim()
Trim(s) ==
    IF \A i \in 1..Len(s) : s[i] \in WhiteSpace THEN <<>>
    ELSE LET lo == CHOOSE i \in 1..Len(s) :
                      s[i] \notin WhiteSpace /\ \A j \in 1..(i - 1) : s[j] \in WhiteSpace
             hi == CHOOSE i \in 1..Len(s) :
                      s[i] \notin WhiteSpace /\ \A j \in (i + 1)..Len(s) : s[j] \in WhiteSpace
         IN  SubSeq(s, lo, hi)

\* .replace(/\r\n/g, '\n')
ReplaceCRLF(s) ==
    FilterIdx(s, [i \in 1..Len(s) |->
                    ~(s[i] = "\r" /\ i < Len(s) /\ s[i + 1] = "\n")])

\* .replace(/\r/g, '\n')
ReplaceCR(s) == AsSeq([i \in 1..Len(s) |-> IF s[i] = "\r" THEN "\n" ELSE s[i]])

\* .replace(/[ \t]+/g, ' ')
CollapseBlanks(s) ==
    LET kept == FilterIdx(s, [i \in 1..Len(s) |->
                    ~(s[i] \in Blank /\ i > 1 /\ s[i - 1] \in Blank)])
    IN  AsSeq([i \in 1..Len(kept) |-> IF kept[i] = "\t" THEN " " ELSE kept[i]])

\* .replace(/\n{3,}/g, '\n\n')
CollapseNewlines(s) ==
    FilterIdx(s, [i \in 1..Len(s) |->
                    ~(s[i] = "\n" /\ i > 2 /\ s[i - 1] = "\n" /\ s[i - 2] = "\n")])

\* cleanText that collapses the newlines before it turns the carriage
\* returns into newlines.
cleanTextNewlinesFirst(text) ==
    Trim(CollapseBlanks(ReplaceCR(CollapseNewlines(ReplaceCRLF(text)))))

cleanText(text) ==
    Trim(CollapseNewlines(CollapseBlanks(ReplaceCR(ReplaceCRLF(text)))))

sentenceEnders ==
    << <<".", " ">>, <<"!", " ">>, <<"?", " ">>,
       <<".", "\n">>, <<"!", "\n">>, <<"?", "\n">> >>

\* Width of the window searched before the target position.
SentenceLookBehind == 200

\* Width of the window searched after the target position.
SentenceLookAhead == 100

\* String.prototype.lastIndexOf(ender, fromIndex) for a two-character ender:
\* the greatest 0-based position <= fromIndex where ender occurs, else -1;
\* a negative fromIndex counts as 0.
LastIndexOf(s, ender, fromIndex) ==
    LET hits == {p \in 0..Min(Max(fromIndex, 0), Len(s) - 2) :
                    s[p + 1] = ender[1] /\ s[p + 2] = ender[2]}
    IN  IF hits = {} THEN 0 - 1
        ELSE CHOOSE p \in hits : \A q \in hits : p >= q

RECURSIVE ScanEnders(_, _, _, _, _, _)
\* The for-loop of findSentenceEnd over sentenceEnders[k..]: bestPos is -1
\* while minDistance is Infinity.
ScanEnders(searchText, searchStart, target, k, bestPos, minDistance) ==
    IF k > Len(sentenceEnders) THEN bestPos
    ELSE LET pos == LastIndexOf(searchText, sentenceEnders[k], target - searchStart)
             actualPos == searchStart + pos + 2
             distance == Abs(actualPos - target)
         IN  IF pos # 0 - 1 /\ (bestPos = 0 - 1 \/ distance < minDistance)
             THEN ScanEnders(searchText, searchStart, target, k + 1, actualPos, distance)
             ELSE ScanEnders(searchText, searchStart, target, k + 1, bestPos, minDistance)

findSentenceEnd(text, start, target) ==
    LET searchStart == Max(start, target - SentenceLookBehind)
        searchEnd == Min(Len(text), target + SentenceLookAhead)
        searchText == Substring(text, searchStart, searchEnd)
        bestPos == ScanEnders(searchText, searchStart, target, 1, 0 - 1, 0)
    IN  IF bestPos > start THEN bestPos ELSE target

\* One pass through the body of the while-loop of chunkText that moves the
\* cursor one character past the end of the chunk.
ChunkStepSkipping(cleanedText, chunkSize, overlap, startChar, chunkIndex, chunks) ==
    LET endChar == Min(startChar + chunkSize, Len(cleanedText))
        piece == Trim(Substring(cleanedText, startChar, endChar))
        emitted == IF Len(piece) > 0
                   THEN Append(chunks, [text |-> piece, index |-> chunkIndex,
                                        startChar |-> startChar, endChar |-> endChar])
                   ELSE chunks
    IN  [startChar |-> endChar + 1,
         chunkIndex |-> IF Len(piece) > 0 THEN chunkIndex + 1 ELSE chunkIndex,
         chunks |-> emitted]

\* One pass through the body of the while-loop of chunkText that moves the
\* cursor back by the overlap without the check for progress.
ChunkStepWithoutProgress(cleanedText, chunkSize, overlap, startChar, chunkIndex, chunks) ==
    LET endChar == Min(startChar + chunkSize, Len(cleanedText))
        piece == Trim(Substring(cleanedText, startChar, endChar))
        emitted == IF Len(piece) > 0
                   THEN Append(chunks, [text |-> piece, index |-> chunkIndex,
                                        startChar |-> startChar, endChar |-> endChar])
                   ELSE chunks
    IN  [startChar |-> Max(endChar - overlap, 0),
         chunkIndex |-> IF Len(piece) > 0 THEN chunkIndex + 1 ELSE chunkIndex,
         chunks |-> emitted]

\* One pass through the body of the while-loop of chunkText, lines 44-72:
\* the cursor, the next index and the chunks after it.
ChunkStep(cleanedText, chunkSize, overlap, startChar, chunkIndex, chunks) ==
    LET rawEnd == Min(startChar + chunkSize, Len(cleanedText))
        sentenceEnd == findSentenceEnd(cleanedText, startChar, rawEnd)
        endChar == IF rawEnd < Len(cleanedText) /\ sentenceEnd > startChar
                   THEN sentenceEnd ELSE rawEnd
        piece == Trim(Substring(cleanedText, startChar, endChar))
        emitted == IF Len(piece) > 0
                   THEN Append(chunks, [text |-> piece, index |-> chunkIndex,
                                        startChar |-> startChar, endChar |-> endChar])
                   ELSE chunks
        moved == endChar - overlap
    IN  [startChar |-> IF Len(emitted) > 0 /\ moved <= emitted[Len(emitted)].startChar
                       THEN endChar ELSE moved,
         chunkIndex |-> IF Len(piece) > 0 THEN chunkIndex + 1 ELSE chunkIndex,
         chunks |-> emitted]

RECURSIVE ChunkLoop(_, _, _, _, _, _)
\* The while-loop of chunkText from the cursor startChar on.
ChunkLoop(cleanedText, chunkSize, overlap, startChar, chunkIndex, chunks) ==
    IF ~(startChar < Len(cleanedText)) THEN chunks
    ELSE LET s == ChunkStep(cleanedText, chunkSize, overlap, startChar, chunkIndex, chunks)
         IN  ChunkLoop(cleanedText, chunkSize, overlap, s.startChar, s.chunkIndex, s.chunks)

\* A text that only fits a chunk when it is shorter than the chunk size.
FitsOneChunkStrictly(cleanedText, chunkSize) == Len(cleanedText) < chunkSize

\* Line 30: the text is small enough to be returned as a single chunk.
FitsOneChunk(cleanedText, chunkSize) == Len(cleanedText) <= chunkSize

\* Lines 32-37: the single chunk of a small text.
SingleChunk(cleanedText) ==
    << [text |-> cleanedText, index |-> 0,
        startChar |-> 0, endChar |-> Len(cleanedText)] >>

\* chunkText cutting windows that do not overlap.
chunkTextWithoutOverlap(text, chunkSize, overlap) ==
    LET cleanedText == cleanText(text)
    IN  IF Len(cleanedText) <= chunkSize
        THEN << [text |-> cleanedText, index |-> 0,
                 startChar |-> 0, endChar |-> Len(cleanedText)] >>
        ELSE ChunkLoop(cleanedText, chunkSize, 0, 0, 0, <<>>)

chunkText(text, chunkSize, overlap) ==
    LET cleanedText == cleanText(text)
    IN  IF FitsOneChunk(cleanedText, chunkSize)
        THEN SingleChunk(cleanedText)
        ELSE ChunkLoop(cleanedText, chunkSize, overlap, 0, 0, <<>>)

\* ------------------------------------------------------------------------
\* Program constants
\* ------------------------------------------------------------------------

\* Dimension of a voyage-3-large embedding.
EmbeddingDims == 1024

\* Longest question askQuestion accepts.
MaxQuestionLen == 1000

\* Shortest question the /ask route accepts.
MinQuestionLen == 3

\* Number of documents retrieved for one question.
RetrievalLimit == 3

\* Normalized content longer than this is chunked.
ChunkThreshold == 2000

\* chunkSize passed to chunkText by the ingestion.
IngestChunkSize == 1000

\* overlap passed to chunkText by the ingestion.
IngestOverlap == 200

Languages == {"en", "am"}

Modes == {"general", "where-to-go", "deadline"}

Categories == {"registrar", "academic", "department", "fees", "deadline",
               "lab", "internship", "service", "policy", "other"}

\* ------------------------------------------------------------------------
\* Bounds of the model
\* ------------------------------------------------------------------------

\* Date.now() reads one of 0..MaxTime.
MaxTime == 0

\* Most question/answer exchanges the store holds, over all its records.
MaxExchanges == 2

\* Most ingestions that get past the validation.
MaxUploads == 1

\* The distance between two full stops of ContentLargeStops.
StopEvery == 10

\* Most documents the store holds when an ingestion gets past the validation.
MaxStored == 0

\* Most ingestions of second requests.
MaxPeerUploads == 1

\* Longest text given to cleanText and chunkText when they are called on
\* their own.
MaxTextLen == 5

\* Largest chunk size given to chunkText when it is called on its own.
MaxChunkSize == 3

\* Most items given to findTopKSimilar.
MaxItems == 3

\* Largest k given to findTopKSimilar.
MaxTopK == 3

\* ------------------------------------------------------------------------
\* Values
\* ------------------------------------------------------------------------

Users == {"u1", "u2"}

\* req.user is undefined: the request has no Authorization header.
NoUser == "none"

\* The other requests that protect does not let through: the header 'Bearer'
\* without a token; a token while the server has no JWT_SECRET; a token
\* that has expired, one with a signature of another secret and one that is
\* not a JWT; the token of a user who is not in the store, and of one who is
\* deactivated.
SchemeOnly == "bearer"

SecretMissing == "secret missing"

TokenExpired == "token expired"

TokenForged == "token forged"

TokenMalformed == "token malformed"

UserMissing == "user missing"

UserDeactivated == "user deactivated"

Unauthenticated ==
    {NoUser, SchemeOnly, SecretMissing, TokenExpired, TokenForged, TokenMalformed,
     UserMissing, UserDeactivated}

\* A body field that is absent (undefined).
Absent == ""

\* A query parameter that is absent (undefined).
NoParam == <<>>

\* The null queryEmbedding of askQuestion.
Null == <<>>

\* An ObjectId that is not set.
NoId == 0

\* A numeric field that is not set.
NoNumber == 0 - 1

Repeat(n, c) == AsSeq([i \in 1..n |-> c])

QFees == <<" ", "f", "e", "e", "s">>

QShort == <<"h", "i">>

QBlank == <<" ", " ", " ", " ">>

QLong == Repeat(MaxQuestionLen + 1, "a")

AnswerA == <<"O", "K">>

AnswerBlank == <<" ", "\n">>

ContentShort ==
    <<" ", "F", "e", "e", "s", ":", " ", " ", "p", "a", "y", "\r", "\n", "n", "o", "w", ".">>

ContentTiny == <<"F", "e", "e", "s">>

\* Exactly ChunkThreshold characters after normalization.
ContentAtThreshold == Repeat(ChunkThreshold, "a")

\* One character more than ChunkThreshold, without a sentence end.
ContentOverThreshold == Repeat(ChunkThreshold + 1, "a")

\* ------------------------------------------------------------------------
\* State
\* ------------------------------------------------------------------------

VARIABLES
    chats,       \* ChatHistory collection, in insertion order
    docs,        \* Document collection
    nextId,      \* next ObjectId of the Document collection
    uploads,     \* ingestions started so far
    call,        \* the request being handled whose response is observed
    reply,       \* what the services came back with for this request
    res,         \* the response on its way to the client
    ingest,      \* chunk tasks of processAndSaveDocument that have not settled
    probe,       \* a utility function called on its own: arguments and result
    peer         \* a second request, handled at the same time as call

vars == <<chats, docs, nextId, uploads, call, reply, res, ingest, probe, peer>>

\* Local variables of a handler that is not running. The model keeps the
\* locals a handler reads after its first await.
NoLocals ==
    [chatSessionId |-> Absent, question |-> <<>>, language |-> Absent, mode |-> Absent,
     queryEmbedding |-> Null, relevantDocs |-> <<>>, aiResponse |-> <<>>,
     chatHistory |-> 0, limitNum |-> 0, pageNum |-> 0, chatHistories |-> <<>>,
     title |-> <<>>, category |-> Absent, tags |-> <<>>,
     cleanedContent |-> <<>>, chunks |-> <<>>, document |-> NoId,
     includeChunks |-> FALSE, documents |-> <<>>]

IdleCall ==
    [op |-> "idle", pc |-> "idle", user |-> NoUser, locals |-> NoLocals]

\* Nothing has come back yet: embedding is "none", "vector", "unconfigured" or
\* "failed"; vector is "none", "threw", "empty" or "results", with the results
\* in found; lexical tells that the text search was called;
\* context holds the documents generateAIResponse was called with; kind, text,
\* message and markers are the outcome of the generation; history is "none",
\* "read" after findOne, "saved" after save, "failed" when either threw.
NoReply ==
    [embedding |-> "none", vector |-> "none", found |-> <<>>, lexical |-> FALSE,
     context |-> <<>>, kind |-> "none", text |-> <<>>, message |-> "", markers |-> {},
     history |-> "none"]

NoResponse == [status |-> 0]

\* No utility function is being called on its own.
NoProbe == [fn |-> "none"]

NoData == [none |-> TRUE]

Failure(status, message, error) ==
    [status |-> status, success |-> FALSE, message |-> message,
     error |-> error, data |-> NoData]

Success(status, message, data) ==
    [status |-> status, success |-> TRUE, message |-> message,
     error |-> "", data |-> data]

\* A request as the handler takes it up.
Running(op, pc, user) ==
    [op |-> op, pc |-> pc, user |-> user, locals |-> NoLocals]

\* A request whose response has been sent: its locals are gone.
Responding(c) == [c EXCEPT !.pc = "responding", !.locals = NoLocals]

\* The first response of a chain of middleware and checks: each either
\* answers the request or hands it on (NoResponse).
FirstResponse(chain) ==
    LET answered == {i \in 1..Len(chain) : chain[i] # NoResponse}
    IN  IF answered = {} THEN NoResponse
        ELSE chain[CHOOSE i \in answered : \A j \in answered : i <= j]

\* No observed request is being handled: the next request to arrive is the
\* one the model observes. A request that arrives while this is false is
\* handled as peer.
Quiet == call.pc = "idle"

\* A request is being handled, and no second one yet.
Overlapping == call.pc \notin {"idle", "responding"} /\ peer.pc = "idle"

\* The client receives the response.
Deliver ==
    /\ call.pc = "responding"
    /\ call' = IdleCall
    /\ reply' = NoReply
    /\ res' = NoResponse
    /\ UNCHANGED <<chats, docs, nextId, uploads, ingest, probe, peer>>

\* ------------------------------------------------------------------------
\* backend/middleware/auth.ts
\* ------------------------------------------------------------------------

\* req.user.role as protect sets it from the user record.
RoleOf(user) == IF user = "u1" THEN "staff" ELSE "student"

\* The roles the document routes are open to.
DocumentManagers == {"admin", "staff"}

\* protect, by what the request brings (lines 19-120): the valid token of
\* an active user passes; a request without an Authorization header is
\* answered at line 34; the header 'Bearer' without a token throws at line 28
\* (token is undefined) into the outer catch; with a token, a server without
\* JWT_SECRET answers at line 44, jwt.verify throws into the inner catch for
\* an expired token and with its own message for any other it rejects, and
\* the user the token names is missing or deactivated at lines 68-84.
protect(user) ==
    IF user = NoUser
    THEN Failure(401, "Not authorized, no token provided", "")
    ELSE IF user = SchemeOnly
    THEN Failure(500, "Server error in authentication", "")
    ELSE IF user = SecretMissing
    THEN Failure(500, "Server auth configuration is missing", "")
    ELSE IF user = TokenExpired
    THEN Failure(401, "Token expired, please login again", "")
    ELSE IF user = TokenForged
    THEN Failure(401, "invalid signature", "")
    ELSE IF user = TokenMalformed
    THEN Failure(401, "jwt malformed", "")
    ELSE IF user = UserMissing
    THEN Failure(401, "User not found", "")
    ELSE IF user = UserDeactivated
    THEN Failure(401, "User account is deactivated", "")
    ELSE NoResponse

\* req.user is set: protect has called next().
Authenticated(user) == protect(user) = NoResponse

\* authorize(...roles)
authorize(roles, user) ==
    IF ~Authenticated(user)
    THEN Failure(401, "Not authorized", "")
    ELSE IF RoleOf(user) \notin roles
    THEN Failure(403, "User role '" \o RoleOf(user)
                         \o "' is not authorized to access this route", "")
    ELSE NoResponse

\* ------------------------------------------------------------------------
\* Embedding Service and generateEmbedding
\* ------------------------------------------------------------------------

\* What the POST to the Voyage AI endpoint can come back with.
EmbeddingOutcomes ==
    {[kind |-> "vector", dims |-> EmbeddingDims, status |-> 200],
     [kind |-> "vector", dims |-> 3, status |-> 200],
     [kind |-> "nodata", dims |-> 0, status |-> 200],
     [kind |-> "http", dims |-> 0, status |-> 401],
     [kind |-> "http", dims |-> 0, status |-> 429],
     [kind |-> "http", dims |-> 0, status |-> 500],
     [kind |-> "network", dims |-> 0, status |-> 0]}

Thrown(message) == [ok |-> FALSE, value |-> Null, error |-> message]

Returned(value) == [ok |-> TRUE, value |-> value, error |-> ""]

\* generateEmbedding that returns null where the embedding failed.
generateEmbeddingNullable(key, out) ==
    IF key /\ out.kind = "vector" /\ out.dims = EmbeddingDims
    THEN Returned(Repeat(out.dims, 1))
    ELSE Returned(Null)

generateEmbedding(key, out) ==
    IF ~key
    THEN Thrown("Failed to generate embedding: VOYAGE_API_KEY is not configured")
    ELSE IF out.kind = "vector"
    THEN IF out.dims # EmbeddingDims
         THEN Thrown("Failed to generate embedding: Invalid embedding dimensions: expected 1024, got "
                     \o ToString(out.dims))
         ELSE Returned(Repeat(out.dims, 1))
    ELSE IF out.kind = "nodata"
    THEN Thrown("Failed to generate embedding: Invalid response from Voyage AI")
    ELSE IF out.kind = "http" /\ out.status = 401
    THEN Thrown("Voyage AI API key is invalid")
    ELSE IF out.kind = "http" /\ out.status = 429
    THEN Thrown("Voyage AI rate limit exceeded")
    ELSE IF out.kind = "http"
    THEN Thrown("Failed to generate embedding: Request failed with status code "
                \o ToString(out.status))
    ELSE Thrown("Failed to generate embedding: timeout of 30000ms exceeded")

\* ------------------------------------------------------------------------
\* Generation Service and generateAIResponse
\* ------------------------------------------------------------------------

\* What the race of model.generateContent against the 30 s timer can yield:
\* a text, or an error whose message contains the listed marker words.
GenerationOutcomes ==
    {[kind |-> "text", text |-> t, message |-> "", markers |-> {}] :
        t \in {AnswerA, AnswerBlank, <<>>}}
    \cup
    {[kind |-> "error", text |-> <<>>, message |-> e[1], markers |-> e[2]] :
        e \in {<<"API_KEY_INVALID", {"API_KEY"}>>,
               <<"API key was reported as leaked", {"leaked"}>>,
               <<"[403 Forbidden] quota project", {"403", "quota"}>>,
               <<"Gemini API timeout after 30 seconds", {"timeout"}>>,
               <<"[429] quota exceeded", {"quota"}>>,
               <<"fetch failed", {}>>}}

\* The generation is not attempted without a key: the reply is then the
\* configuration error raised before the call.
GenerationReply(key, out) ==
    IF key THEN out
    ELSE [kind |-> "error", text |-> <<>>,
          message |-> "GEMINI_API_KEY is not configured", markers |-> {"API_KEY"}]

\* process.env.VOYAGE_API_KEY and process.env.GEMINI_API_KEY are read at each
\* call. A call to a service: the key is set and the service comes back with
\* one of its outcomes, or the key is not set and the service is not reached.
ServiceCalls(outcomes) ==
    {[key |-> TRUE, out |-> out] : out \in outcomes}
    \cup {[key |-> FALSE, out |-> CHOOSE out \in outcomes : TRUE]}

\* generateAIResponse without the check of lines 249-251: a blank text is
\* returned as an answer.
generateAIResponseLenient(key, out) ==
    LET got == GenerationReply(key, out)
    IN  IF got.kind = "text" THEN Returned(got.text)
        ELSE Thrown("Failed to generate AI response: " \o got.message)

generateAIResponse(key, out) ==
    LET got == GenerationReply(key, out)
        raw == IF got.kind = "error"
               THEN [message |-> got.message, markers |-> got.markers]
               ELSE [message |-> "Gemini returned empty response", markers |-> {}]
    IN  IF got.kind = "text" /\ Len(got.text) > 0 /\ Len(Trim(got.text)) > 0
        THEN Returned(got.text)
        ELSE IF "API_KEY" \in raw.markers
        THEN Thrown("Gemini API key is invalid or missing")
        ELSE IF "leaked" \in raw.markers
        THEN Thrown("Gemini API key has been blocked. Please update GEMINI_API_KEY in .env file with a new key from https://makersuite.google.com/app/apikey")
        ELSE IF "403" \in raw.markers
        THEN Thrown("Gemini API access forbidden. Please check your API key.")
        ELSE IF "timeout" \in raw.markers
        THEN Thrown("AI response generation timed out")
        ELSE IF "quota" \in raw.markers
        THEN Thrown("Gemini API quota exceeded")
        ELSE Thrown("Failed to generate AI response: " \o raw.message)

\* ------------------------------------------------------------------------
\* Document Store searches
\* ------------------------------------------------------------------------

\* Sequences of at most k distinct elements of S.
Selections(S, k) ==
    UNION {{q \in [1..n -> S] : \A i, j \in 1..n : i # j => q[i] # q[j]} :
              n \in 0..Min(k, Cardinality(S))}

\* The fields of a retrieved document that askQuestion reads.
Retrieved(d) ==
    [id |-> d.id, title |-> d.title, category |-> d.category,
     isChunk |-> d.isChunk, chunkIndex |-> d.chunkIndex]

\* What DocumentModel.vectorSearch can yield: it throws, or it returns up to
\* limit documents of the vector index, ordered by the score of the engine.
VectorSearchOutcomes(limit) ==
    {[threw |-> TRUE, results |-> <<>>]} \cup
    {[threw |-> FALSE, results |-> [i \in 1..Len(q) |-> Retrieved(q[i])]] :
        q \in Selections({d \in docs : Len(d.embedding) > 0}, limit)}

\* What DocumentModel.findSimilar can yield: it throws, or it returns up to
\* limit public documents, ordered by text score.
FindSimilarOutcomes(limit) ==
    {[threw |-> TRUE, results |-> <<>>]} \cup
    {[threw |-> FALSE, results |-> [i \in 1..Len(q) |-> Retrieved(q[i])]] :
        q \in Selections({d \in docs : d.isPublic}, limit)}

\* What line 343 of a request can get from DocumentModel.vectorSearch: no
\* search is made while the request is elsewhere.
VectorSearchResults(c) ==
    IF c.op = "askQuestion" /\ c.pc = "vector"
    THEN VectorSearchOutcomes(RetrievalLimit) ELSE {}

\* What lines 348 and 352 of a request can get from DocumentModel.findSimilar.
FindSimilarResults(c) ==
    IF c.op = "askQuestion" /\ c.pc = "lexical"
    THEN FindSimilarOutcomes(RetrievalLimit) ELSE {}

findRelevantDocumentsByEmbedding(out) ==
    IF out.threw THEN <<>> ELSE out.results

findRelevantDocuments(out) ==
    IF out.threw THEN <<>> ELSE out.results

\* ------------------------------------------------------------------------
\* ChatHistory collection
\* ------------------------------------------------------------------------

\* A findOne that never finds a record.
FindActiveNever(store, userId, sessionId) == 0

\* A findOne without the userId filter.
FindActiveOfAnyUser(store, userId, sessionId) ==
    LET hits == {i \in 1..Len(store) : /\ store[i].sessionId = sessionId
                                       /\ store[i].isActive}
    IN  IF hits = {} THEN 0 ELSE CHOOSE i \in hits : \A j \in hits : i <= j

\* A findOne without the isActive filter.
FindAnyRecord(store, userId, sessionId) ==
    LET hits == {i \in 1..Len(store) : /\ store[i].userId = userId
                                       /\ store[i].sessionId = sessionId}
    IN  IF hits = {} THEN 0 ELSE CHOOSE i \in hits : \A j \in hits : i <= j

\* ChatHistory.findOne({userId, sessionId, isActive: true}): index of the
\* first match in the collection, 0 for null.
FindActive(store, userId, sessionId) ==
    LET hits == {i \in 1..Len(store) : /\ store[i].userId = userId
                                       /\ store[i].sessionId = sessionId
                                       /\ store[i].isActive}
    IN  IF hits = {} THEN 0 ELSE CHOOSE i \in hits : \A j \in hits : i <= j

\* `session_${req.user.id}_${Date.now()}`
GeneratedSessionId(userId, time) ==
    "session_" \o userId \o "_" \o ToString(time)

\* The two messages pushed in the other order.
ExchangeAssistantFirst(question, aiResponse, relevantDocs) ==
    << [role |-> "assistant", content |-> aiResponse,
        sources |-> [i \in 1..Len(relevantDocs) |->
                        [documentId |-> relevantDocs[i].id,
                         title |-> relevantDocs[i].title,
                         category |-> relevantDocs[i].category]]],
       [role |-> "user", content |-> question, sources |-> <<>>] >>

\* The two messages askQuestion pushes for one exchange.
Exchange(question, aiResponse, relevantDocs) ==
    << [role |-> "user", content |-> question, sources |-> <<>>],
       [role |-> "assistant", content |-> aiResponse,
        sources |-> [i \in 1..Len(relevantDocs) |->
                        [documentId |-> relevantDocs[i].id,
                         title |-> relevantDocs[i].title,
                         category |-> relevantDocs[i].category]]] >>

\* new ChatHistory({userId, sessionId, messages: [], language, mode})
NewChatHistory(userId, sessionId, language, mode) ==
    [userId |-> userId, sessionId |-> sessionId, messages |-> <<>>,
     language |-> language, mode |-> mode, isActive |-> TRUE]

\* Session ids the client of a user can name: the ones it was given, which
\* are those of the records of that user.
KnownSessionIds(user) ==
    {chats[i].sessionId : i \in {j \in 1..Len(chats) : chats[j].userId = user}}

RECURSIVE SumLen(_, _)
SumLen(store, n) ==
    IF n = 0 THEN 0 ELSE Len(store[n].messages) + SumLen(store, n - 1)

\* Exchanges held by the store.
ExchangesIn(store) == SumLen(store, Len(store)) \div 2

\* ------------------------------------------------------------------------
\* askQuestion  (POST /api/chat/ask)
\* ------------------------------------------------------------------------

\* The validation chain of the /ask route, run on the raw body: the question
\* is trimmed, must not be empty and must have 3..1000 characters; language
\* and mode, when present, must be of their enumerations.
AskValidationFails(body) ==
    LET q == Trim(body.question)
    IN  \/ Len(q) = 0
        \/ Len(q) < MinQuestionLen
        \/ Len(q) > MaxQuestionLen
        \/ (body.language # Absent /\ body.language \notin Languages)
        \/ (body.mode # Absent /\ body.mode \notin Modes)

\* const chatSessionId = sessionId || `session_${req.user.id}_${Date.now()}`
ResolveSessionId(user, sessionId, time) ==
    IF sessionId # Absent THEN sessionId ELSE GeneratedSessionId(user, time)

\* The requests the clients send: a well-formed question without a session
\* id or with one the client knows, and one request for each way of being
\* rejected.
AskRequests ==
    {[user |-> u, body |-> [question |-> QFees, language |-> Absent, mode |-> Absent,
                            sessionId |-> Absent]] : u \in Users}
    \cup
    UNION {{[user |-> u, body |-> [question |-> QFees, language |-> Absent,
                                   mode |-> Absent, sessionId |-> sid]] :
               sid \in KnownSessionIds(u)} : u \in Users}
    \cup
    {[user |-> "u1", body |-> [question |-> q, language |-> Absent, mode |-> Absent,
                               sessionId |-> Absent]] :
        q \in {<<>>, QBlank, QShort, QLong}}
    \cup
    {[user |-> "u1", body |-> [question |-> QFees, language |-> "fr", mode |-> Absent,
                               sessionId |-> Absent]],
     [user |-> "u1", body |-> [question |-> QFees, language |-> "am", mode |-> "quiz",
                               sessionId |-> Absent]],
     [user |-> NoUser, body |-> [question |-> QFees, language |-> Absent, mode |-> Absent,
                                 sessionId |-> Absent]],
     [user |-> NoUser, body |-> [question |-> QShort, language |-> Absent, mode |-> Absent,
                                 sessionId |-> Absent]]}
    \cup
    {[user |-> u, body |-> [question |-> QFees, language |-> Absent, mode |-> Absent,
                            sessionId |-> Absent]] : u \in Unauthenticated}

\* The store has room for the exchange a request would persist.
AskHasRoom == ExchangesIn(chats) < MaxExchanges

\* The /ask route and lines 285-327: protect, the validation chain, and in
\* the handler the validation result, the user, the question and the
\* session id.
AskStart(user, body, time) ==
    /\ Quiet
    /\ LET question == Trim(body.question)
           rejected ==
               FirstResponse(<<
                   protect(user),
                   IF AskValidationFails(body)
                   THEN Failure(400, "Validation failed", "") ELSE NoResponse,
                   IF ~Authenticated(user)
                   THEN Failure(401, "Not authorized", "") ELSE NoResponse,
                   IF Len(question) = 0 \/ Len(Trim(question)) = 0
                   THEN Failure(400, "Please provide a question", "") ELSE NoResponse,
                   IF Len(question) > MaxQuestionLen
                   THEN Failure(400, "Question is too long (max 1000 characters)", "")
                   ELSE NoResponse >>)
       IN  /\ rejected = NoResponse => AskHasRoom
           /\ res' = rejected
           /\ call' =
                IF rejected # NoResponse
                THEN Responding(Running("askQuestion", "start", user))
                ELSE [Running("askQuestion", "embed", user) EXCEPT
                      !.locals.question = question,
                      !.locals.language = IF body.language = Absent THEN "en"
                                          ELSE body.language,
                      !.locals.mode = IF body.mode = Absent THEN "general" ELSE body.mode,
                      !.locals.chatSessionId = ResolveSessionId(user, body.sessionId, time)]
    /\ UNCHANGED <<chats, docs, nextId, uploads, reply, ingest, probe, peer>>

\* An askQuestion without the try/catch of lines 331-337: an embedding that
\* throws reaches the catch of lines 434-442.
AskEmbedPropagating(key, out) ==
    /\ call.op = "askQuestion" /\ call.pc = "embed"
    /\ LET e == generateEmbedding(key, out)
       IN  /\ call' = IF e.ok
                      THEN [call EXCEPT !.pc = "vector", !.locals.queryEmbedding = e.value]
                      ELSE Responding(call)
           /\ res' = IF e.ok THEN res
                     ELSE Failure(500, "Error processing your question", e.error)
           /\ reply' = [reply EXCEPT
                  !.embedding = IF e.ok THEN "vector"
                                ELSE IF ~key THEN "unconfigured" ELSE "failed"]
    /\ UNCHANGED <<chats, docs, nextId, uploads, ingest, probe, peer>>

\* Lines 329-337: the question is embedded; a failure leaves the embedding null.
AskEmbed(key, out) ==
    /\ call.op = "askQuestion" /\ call.pc = "embed"
    /\ LET e == generateEmbedding(key, out)
           queryEmbedding == IF e.ok THEN e.value ELSE Null
       IN  /\ call' = [call EXCEPT
                  !.pc = IF Len(queryEmbedding) > 0 THEN "vector" ELSE "lexical",
                  !.locals.queryEmbedding = queryEmbedding]
           /\ reply' = [reply EXCEPT
                  !.embedding = IF e.ok THEN "vector"
                                ELSE IF ~key THEN "unconfigured" ELSE "failed"]
    /\ UNCHANGED <<chats, docs, nextId, uploads, res, ingest, probe, peer>>

\* A vector search that is always followed by the text search.
AskVectorThenLexical(out) ==
    /\ call.op = "askQuestion" /\ call.pc = "vector"
    /\ call' = [call EXCEPT !.pc = "lexical",
                            !.locals.relevantDocs = findRelevantDocumentsByEmbedding(out)]
    /\ reply' = [reply EXCEPT
           !.vector = IF out.threw THEN "threw"
                      ELSE IF Len(out.results) = 0 THEN "empty" ELSE "results",
           !.found = out.results]
    /\ UNCHANGED <<chats, docs, nextId, uploads, res, ingest, probe, peer>>

\* Lines 342-349: vector search; no result sends the request to text search.
AskVector(out) ==
    /\ call.op = "askQuestion" /\ call.pc = "vector"
    /\ LET found == findRelevantDocumentsByEmbedding(out)
       IN  call' = [call EXCEPT
                !.pc = IF Len(found) = 0 THEN "lexical" ELSE "generate",
                !.locals.relevantDocs = found]
    /\ reply' = [reply EXCEPT
           !.vector = IF out.threw THEN "threw"
                      ELSE IF Len(out.results) = 0 THEN "empty" ELSE "results",
           !.found = out.results]
    /\ UNCHANGED <<chats, docs, nextId, uploads, res, ingest, probe, peer>>

\* A text search without the catch of lines 137-142: a search that throws
\* reaches the catch of lines 434-442.
AskLexicalPropagating(out) ==
    /\ call.op = "askQuestion" /\ call.pc = "lexical"
    /\ IF out.threw
       THEN /\ call' = Responding(call)
            /\ res' = Failure(500, "Error processing your question", "search")
       ELSE /\ call' = [call EXCEPT !.pc = "generate", !.locals.relevantDocs = out.results]
            /\ res' = res
    /\ reply' = [reply EXCEPT !.lexical = TRUE]
    /\ UNCHANGED <<chats, docs, nextId, uploads, ingest, probe, peer>>

\* Lines 348 and 352: text search.
AskLexical(out) ==
    /\ call.op = "askQuestion" /\ call.pc = "lexical"
    /\ call' = [call EXCEPT !.pc = "generate",
                            !.locals.relevantDocs = findRelevantDocuments(out)]
    /\ reply' = [reply EXCEPT !.lexical = TRUE]
    /\ UNCHANGED <<chats, docs, nextId, uploads, res, ingest, probe, peer>>

\* The success response with the sources in the opposite order.
AskResponseReversed(c) ==
    Success(200, "",
        [question |-> c.locals.question, answer |-> c.locals.aiResponse,
         language |-> c.locals.language, mode |-> c.locals.mode,
         sessionId |-> c.locals.chatSessionId,
         sources |-> [i \in 1..Len(c.locals.relevantDocs) |->
                         c.locals.relevantDocs[Len(c.locals.relevantDocs) + 1 - i]]])

\* Lines 408-431: the success response.
AskResponse(c) ==
    Success(200, "",
        [question |-> c.locals.question, answer |-> c.locals.aiResponse,
         language |-> c.locals.language, mode |-> c.locals.mode,
         sessionId |-> c.locals.chatSessionId,
         sources |-> c.locals.relevantDocs])

\* Line 361 and the catch of lines 434-442: a generation that throws ends
\* the request with status 500.
AskGenerate(key, out) ==
    /\ call.op = "askQuestion" /\ call.pc = "generate"
    /\ LET got == GenerationReply(key, out)
       IN  reply' = [reply EXCEPT !.context = call.locals.relevantDocs,
                                  !.kind = got.kind, !.text = got.text,
                                  !.message = got.message, !.markers = got.markers]
    /\ LET g == generateAIResponse(key, out)
       IN  IF g.ok
           THEN /\ call' = [call EXCEPT !.pc = "find", !.locals.aiResponse = g.value]
                /\ res' = res
           ELSE /\ call' = Responding(call)
                /\ res' = Failure(500, "Error processing your question", g.error)
    /\ UNCHANGED <<chats, docs, nextId, uploads, ingest, probe, peer>>

\* Lines 365-369: ChatHistory.findOne; when it throws, the catch of lines
\* 402-405 goes on to the response.
AskFind(storeOk) ==
    /\ call.op = "askQuestion" /\ call.pc = "find"
    /\ IF storeOk
       THEN /\ call' = [call EXCEPT
                   !.pc = "save",
                   !.locals.chatHistory =
                       FindActive(chats, call.user, call.locals.chatSessionId)]
            /\ res' = res
       ELSE /\ call' = Responding(call)
            /\ res' = AskResponse(call)
    /\ reply' = [reply EXCEPT !.history = IF storeOk THEN "read" ELSE "failed"]
    /\ UNCHANGED <<chats, docs, nextId, uploads, ingest, probe, peer>>

\* Lines 371-400: the record found, or a new one, with the two messages
\* pushed, as chatHistory.save() writes it.
SaveExchange(store, c) ==
    LET pair == Exchange(c.locals.question, c.locals.aiResponse, c.locals.relevantDocs)
        at == c.locals.chatHistory
    IN  IF at = 0
        THEN Append(store,
                    [NewChatHistory(c.user, c.locals.chatSessionId,
                                    c.locals.language, c.locals.mode)
                     EXCEPT !.messages = pair])
        ELSE [store EXCEPT ![at].messages = @ \o pair]

\* A save without the try/catch of lines 364-405: a save that throws reaches
\* the catch of lines 434-442.
AskSaveSurfacing(storeOk) ==
    /\ call.op = "askQuestion" /\ call.pc = "save"
    /\ chats' = IF storeOk THEN SaveExchange(chats, call) ELSE chats
    /\ call' = Responding(call)
    /\ res' = IF storeOk THEN AskResponse(call)
              ELSE Failure(500, "Error processing your question", "store")
    /\ reply' = [reply EXCEPT !.history = IF storeOk THEN "saved" ELSE "failed"]
    /\ UNCHANGED <<docs, nextId, uploads, ingest, probe, peer>>

\* A response that does not wait for chatHistory.save().
AskSaveDetached(storeOk) ==
    /\ call.op = "askQuestion" /\ call.pc = "save"
    /\ call' = Responding(call)
    /\ res' = AskResponse(call)
    /\ UNCHANGED <<chats, docs, nextId, uploads, reply, ingest, probe, peer>>

\* Lines 381-431: the save, whose failure is caught, and the response.
AskSave(storeOk) ==
    /\ call.op = "askQuestion" /\ call.pc = "save"
    /\ chats' = IF storeOk THEN SaveExchange(chats, call) ELSE chats
    /\ call' = Responding(call)
    /\ res' = AskResponse(call)
    /\ reply' = [reply EXCEPT !.history = IF storeOk THEN "saved" ELSE "failed"]
    /\ UNCHANGED <<docs, nextId, uploads, ingest, probe, peer>>

\* ------------------------------------------------------------------------
\* getChatHistory, getChatSession, deleteChatSession
\* ------------------------------------------------------------------------

Digits == <<"0", "1", "2", "3", "4", "5", "6", "7", "8", "9">>

DigitValue(c) == (CHOOSE i \in 1..Len(Digits) : Digits[i] = c) - 1

\* parseInt of a string of decimal digits.
RECURSIVE ParseInt(_)
ParseInt(s) ==
    IF Len(s) = 0 THEN 0
    ELSE 10 * ParseInt(SubSeq(s, 1, Len(s) - 1)) + DigitValue(s[Len(s)])

\* Math.ceil(a / b) for a >= 0 and b > 0.
CeilDiv(a, b) == (a + b - 1) \div b

\* The queries the clients send with GET /history.
HistoryQueries ==
    {[limit |-> NoParam, page |-> NoParam], [limit |-> <<"1">>, page |-> <<"2">>]}

\* All the orders a find can return the records at the indexes S in.
Orders(S) ==
    {q \in [1..Cardinality(S) -> S] : \A i, j \in 1..Cardinality(S) : i # j => q[i] # q[j]}

\* The records a query {userId, isActive: true} of getChatHistory matches,
\* with the session id when the request names one.
HistoryMatching(store, user, sessionId) ==
    {i \in 1..Len(store) :
        /\ store[i].userId = user
        /\ store[i].isActive
        /\ sessionId # Absent => store[i].sessionId = sessionId}

\* The /history route and lines 784-808: protect, the user, the query.
HistoryStart(user, query, sessionId) ==
    /\ Quiet
    /\ LET rejected ==
               FirstResponse(<<
                   protect(user),
                   IF ~Authenticated(user)
                   THEN Failure(401, "Not authorized", "") ELSE NoResponse >>)
       IN  /\ res' = rejected
           /\ call' =
                IF rejected # NoResponse
                THEN Responding(Running("getChatHistory", "start", user))
                ELSE [Running("getChatHistory", "find", user) EXCEPT
                      !.locals.chatSessionId = sessionId,
                      !.locals.limitNum =
                          ParseInt(IF query.limit = NoParam THEN <<"1", "0">>
                                   ELSE query.limit),
                      !.locals.pageNum =
                          ParseInt(IF query.page = NoParam THEN <<"1">> ELSE query.page)]
    /\ UNCHANGED <<chats, docs, nextId, uploads, reply, ingest, probe, peer>>

\* Lines 810-813: ChatHistory.find with sort, limit and skip. The model does
\* not keep updatedAt, so the sort may put the matching records in any order.
HistoryFind(storeOk) ==
    /\ call.op = "getChatHistory" /\ call.pc = "find"
    /\ LET matching == HistoryMatching(chats, call.user, call.locals.chatSessionId)
           skip == (call.locals.pageNum - 1) * call.locals.limitNum
           taken == Max(0, Min(call.locals.limitNum, Cardinality(matching) - skip))
       IN  IF storeOk
           THEN /\ \E order \in Orders(matching) :
                     call' = [call EXCEPT
                                !.pc = "count",
                                !.locals.chatHistories =
                                    [k \in 1..taken |-> chats[order[skip + k]]]]
                /\ res' = res
           ELSE /\ call' = Responding(call)
                /\ res' = Failure(500, "Error fetching chat history", "store")
    /\ UNCHANGED <<chats, docs, nextId, uploads, reply, ingest, probe, peer>>

\* Lines 815-836: ChatHistory.countDocuments and the response.
HistoryCount(storeOk) ==
    /\ call.op = "getChatHistory" /\ call.pc = "count"
    /\ LET total == Cardinality(HistoryMatching(chats, call.user,
                                                call.locals.chatSessionId))
       IN  res' = IF storeOk
                  THEN Success(200, "",
                         [chatHistories |-> call.locals.chatHistories,
                          pagination |-> [total |-> total,
                                          page |-> call.locals.pageNum,
                                          pages |-> CeilDiv(total, call.locals.limitNum)]])
                  ELSE Failure(500, "Error fetching chat history", "store")
    /\ call' = Responding(call)
    /\ UNCHANGED <<chats, docs, nextId, uploads, reply, ingest, probe, peer>>

\* The /history/:sessionId route and lines 844-885.
getChatSession(user, sessionId, storeOk) ==
    /\ Quiet
    /\ LET chatHistory == FindActive(chats, user, sessionId)
       IN  res' = FirstResponse(<<
                      protect(user),
                      IF ~Authenticated(user)
                      THEN Failure(401, "Not authorized", "") ELSE NoResponse,
                      IF ~storeOk
                      THEN Failure(500, "Error fetching chat session", "store")
                      ELSE NoResponse,
                      IF chatHistory = 0
                      THEN Failure(404, "Chat session not found", "")
                      ELSE Success(200, "", [chatHistory |-> chats[chatHistory]]) >>)
    /\ call' = Responding(Running("getChatSession", "start", user))
    /\ UNCHANGED <<chats, docs, nextId, uploads, reply, ingest, probe, peer>>

\* A delete that also empties the message list.
SoftDeleteErasing(store, userId, sessionId) ==
    LET at == FindActive(store, userId, sessionId)
    IN  IF at = 0 THEN store
        ELSE [store EXCEPT ![at].isActive = FALSE, ![at].messages = <<>>]

\* ChatHistory.findOneAndUpdate({userId, sessionId, isActive: true},
\* {isActive: false}) of lines 906-914.
SoftDelete(store, userId, sessionId) ==
    LET at == FindActive(store, userId, sessionId)
    IN  IF at = 0 THEN store ELSE [store EXCEPT ![at].isActive = FALSE]

\* The DELETE /history/:sessionId route and lines 892-937.
deleteChatSession(user, sessionId, storeOk) ==
    /\ Quiet
    /\ LET result == FindActive(chats, user, sessionId)
       IN  /\ res' = FirstResponse(<<
                         protect(user),
                         IF ~Authenticated(user)
                         THEN Failure(401, "Not authorized", "") ELSE NoResponse,
                         IF ~storeOk
                         THEN Failure(500, "Error deleting chat session", "store")
                         ELSE NoResponse,
                         IF result = 0
                         THEN Failure(404, "Chat session not found", "")
                         ELSE Success(200, "Chat session deleted successfully",
                                      NoData) >>)
           /\ chats' = IF Authenticated(user) /\ storeOk
                       THEN SoftDelete(chats, user, sessionId) ELSE chats
    /\ call' = Responding(Running("deleteChatSession", "start", user))
    /\ UNCHANGED <<docs, nextId, uploads, reply, ingest, probe, peer>>

\* ------------------------------------------------------------------------
\* A second request to the chat service, handled at the same time
\* ------------------------------------------------------------------------

\* Lines 285-327 in a second request, a well-formed POST /ask that arrives
\* while another request is being handled: the user, the question and the
\* session id.
PeerAskStart(user, body, time) ==
    /\ Overlapping
    /\ AskHasRoom
    /\ peer' = [Running("askQuestion", "embed", user) EXCEPT
                 !.locals.question = Trim(body.question),
                 !.locals.language = IF body.language = Absent THEN "en"
                                     ELSE body.language,
                 !.locals.mode = IF body.mode = Absent THEN "general" ELSE body.mode,
                 !.locals.chatSessionId = ResolveSessionId(user, body.sessionId, time)]
    /\ UNCHANGED <<chats, docs, nextId, uploads, call, reply, res, ingest, probe>>

\* Lines 329-337 in the second request. The embedding is read by the vector
\* search alone, whose outcome is an input of PeerVector: it is not kept.
PeerEmbed(key, out) ==
    /\ peer.op = "askQuestion" /\ peer.pc = "embed"
    /\ LET e == generateEmbedding(key, out)
           queryEmbedding == IF e.ok THEN e.value ELSE Null
       IN  peer' = [peer EXCEPT
                !.pc = IF Len(queryEmbedding) > 0 THEN "vector" ELSE "lexical"]
    /\ UNCHANGED <<chats, docs, nextId, uploads, call, reply, res, ingest, probe>>

\* Lines 342-349 in the second request.
PeerVector(out) ==
    /\ peer.op = "askQuestion" /\ peer.pc = "vector"
    /\ LET found == findRelevantDocumentsByEmbedding(out)
       IN  peer' = [peer EXCEPT
                !.pc = IF Len(found) = 0 THEN "lexical" ELSE "generate",
                !.locals.relevantDocs = found]
    /\ UNCHANGED <<chats, docs, nextId, uploads, call, reply, res, ingest, probe>>

\* Lines 348 and 352 in the second request.
PeerLexical(out) ==
    /\ peer.op = "askQuestion" /\ peer.pc = "lexical"
    /\ peer' = [peer EXCEPT !.pc = "generate",
                            !.locals.relevantDocs = findRelevantDocuments(out)]
    /\ UNCHANGED <<chats, docs, nextId, uploads, call, reply, res, ingest, probe>>

\* Line 361 in the second request, and the catch of lines 434-442, whose
\* response the client receives.
PeerGenerate(key, out) ==
    /\ peer.op = "askQuestion" /\ peer.pc = "generate"
    /\ LET g == generateAIResponse(key, out)
       IN  peer' = IF g.ok
                   THEN [peer EXCEPT !.pc = "find", !.locals.aiResponse = g.value]
                   ELSE IdleCall
    /\ UNCHANGED <<chats, docs, nextId, uploads, call, reply, res, ingest, probe>>

\* Lines 365-369 in the second request.
PeerFind(storeOk) ==
    /\ peer.op = "askQuestion" /\ peer.pc = "find"
    /\ peer' = IF storeOk
               THEN [peer EXCEPT
                       !.pc = "save",
                       !.locals.chatHistory =
                           FindActive(chats, peer.user, peer.locals.chatSessionId)]
               ELSE IdleCall
    /\ UNCHANGED <<chats, docs, nextId, uploads, call, reply, res, ingest, probe>>

\* Lines 371-431 in the second request: the save and the response, which
\* the client receives.
PeerSave(storeOk) ==
    /\ peer.op = "askQuestion" /\ peer.pc = "save"
    /\ chats' = IF storeOk THEN SaveExchange(chats, peer) ELSE chats
    /\ peer' = IdleCall
    /\ UNCHANGED <<docs, nextId, uploads, call, reply, res, ingest, probe>>

\* Lines 892-937 in a second request, a deleteChatSession of an active
\* session of its user: findOneAndUpdate and the response.
PeerDeleteSession(user, sessionId) ==
    /\ Overlapping
    /\ FindActive(chats, user, sessionId) # 0
    /\ chats' = SoftDelete(chats, user, sessionId)
    /\ peer' = Responding(Running("deleteChatSession", "start", user))
    /\ UNCHANGED <<docs, nextId, uploads, call, reply, res, ingest, probe>>

\* The client of the second request receives its response.
PeerDeliver ==
    /\ peer.pc = "responding"
    /\ peer' = IdleCall
    /\ UNCHANGED <<chats, docs, nextId, uploads, call, reply, res, ingest, probe>>

\* The well-formed POST /ask requests that arrive while another request is
\* being handled: without a session id or with one the client knows.
PeerAskRequests ==
    UNION {{[user |-> u, body |-> [question |-> QFees, language |-> Absent,
                                   mode |-> Absent, sessionId |-> sid]] :
               sid \in {Absent} \cup KnownSessionIds(u)} : u \in Users}

\* The embedding, the searches and the generation of the second request:
\* the awaits of lines 332, 343, 348, 352 and 361.
PeerRetrieve ==
    \/ \E c \in ServiceCalls(EmbeddingOutcomes) : PeerEmbed(c.key, c.out)
    \/ \E out \in VectorSearchResults(peer) : PeerVector(out)
    \/ \E out \in FindSimilarResults(peer) : PeerLexical(out)
    \/ \E c \in ServiceCalls(GenerationOutcomes) : PeerGenerate(c.key, c.out)

\* What the second request does in a step.
PeerChat ==
    \/ \E r \in PeerAskRequests, time \in 0..MaxTime : PeerAskStart(r.user, r.body, time)
    \/ PeerRetrieve
    \/ \E storeOk \in BOOLEAN : PeerFind(storeOk)
    \/ \E storeOk \in BOOLEAN : PeerSave(storeOk)
    \/ \E u \in Users : \E sid \in KnownSessionIds(u) : PeerDeleteSession(u, sid)
    \/ PeerDeliver

\* ------------------------------------------------------------------------
\* The chat service over a knowledge base that does not change
\* ------------------------------------------------------------------------

\* A document ingested before the service is observed.
SeedDocument ==
    [id |-> 1, title |-> <<"F", "e", "e", "s">>, content |-> cleanText(ContentShort),
     category |-> "fees", tags |-> <<>>, embedding |-> Repeat(EmbeddingDims, 1),
     uploadedBy |-> "u1", isPublic |-> TRUE, isChunk |-> FALSE,
     parentDocumentId |-> NoId, chunkIndex |-> NoNumber, chunkCount |-> NoNumber]

Init ==
    /\ chats = <<>>
    /\ docs = {SeedDocument}
    /\ nextId = 2
    /\ uploads = 0
    /\ call = IdleCall
    /\ reply = NoReply
    /\ res = NoResponse
    /\ ingest = {}
    /\ probe = NoProbe
    /\ peer = IdleCall

\* The GET /history requests the clients send.
HistoryRequests ==
    UNION {{[user |-> u, query |-> q, sessionId |-> sid] :
               q \in HistoryQueries, sid \in {Absent} \cup KnownSessionIds(u)} :
           u \in Users}
    \cup
    {[user |-> NoUser, query |-> [limit |-> NoParam, page |-> NoParam],
      sessionId |-> Absent]}

\* The /history/:sessionId requests the clients send, and the ways the store
\* answers: a session of the caller, a session of somebody else or of nobody.
SessionRequests ==
    {[user |-> u, sessionId |-> sid, storeOk |-> TRUE] :
        u \in Users, sid \in UNION {KnownSessionIds(v) : v \in Users}
                              \cup {GeneratedSessionId(v, 0) : v \in Users}}
    \cup
    {[user |-> NoUser, sessionId |-> GeneratedSessionId("u1", 0), storeOk |-> TRUE],
     [user |-> "u1", sessionId |-> GeneratedSessionId("u1", 0), storeOk |-> FALSE]}

Next ==
    \/ Deliver
    \/ \E r \in AskRequests, time \in 0..MaxTime : AskStart(r.user, r.body, time)
    \/ \E c \in ServiceCalls(EmbeddingOutcomes) : AskEmbed(c.key, c.out)
    \/ \E out \in VectorSearchResults(call) : AskVector(out)
    \/ \E out \in FindSimilarResults(call) : AskLexical(out)
    \/ \E c \in ServiceCalls(GenerationOutcomes) : AskGenerate(c.key, c.out)
    \/ \E storeOk \in BOOLEAN : AskFind(storeOk)
    \/ \E storeOk \in BOOLEAN : AskSave(storeOk)
    \/ \E r \in HistoryRequests : HistoryStart(r.user, r.query, r.sessionId)
    \/ \E storeOk \in BOOLEAN : HistoryFind(storeOk)
    \/ \E storeOk \in BOOLEAN : HistoryCount(storeOk)
    \/ \E r \in SessionRequests : getChatSession(r.user, r.sessionId, r.storeOk)
    \/ \E r \in SessionRequests : deleteChatSession(r.user, r.sessionId, r.storeOk)
    \/ PeerChat

Spec == Init /\ [][Next]_vars

\* ------------------------------------------------------------------------
\* The Document schema  (models/Document.ts)
\* ------------------------------------------------------------------------

\* maxlength of the title.
TitleMaxLen == 200

\* maxlength of the content.
ContentMaxLen == 50000

\* The characters of a text as one string.
RECURSIVE JoinChars(_)
JoinChars(s) == IF Len(s) = 0 THEN "" ELSE s[1] \o JoinChars(Tail(s))

\* The messages of a list, separated by ", ".
RECURSIVE JoinMessages(_)
JoinMessages(ms) ==
    IF Len(ms) = 0 THEN ""
    ELSE IF Len(ms) = 1 THEN ms[1]
    ELSE ms[1] \o ", " \o JoinMessages(Tail(ms))

\* The validators of the schema that fail for the fields given to create,
\* in the order of the paths: the title is required and has at most 200
\* characters once trimmed, the content is required and has at most 50000,
\* the category is of the enumeration (the back quotes of its message are
\* written as quotes).
SchemaFailures(title, content, category) ==
    (IF Len(Trim(title)) = 0 THEN <<"title: Please add a document title">>
     ELSE IF Len(Trim(title)) > TitleMaxLen
     THEN <<"title: Title cannot be more than 200 characters">>
     ELSE <<>>)
    \o
    (IF Len(content) = 0 THEN <<"content: Please add document content">>
     ELSE IF Len(content) > ContentMaxLen
     THEN <<"content: Content cannot exceed 50000 characters">>
     ELSE <<>>)
    \o
    (IF category \notin Categories
     THEN <<"category: '" \o category \o "' is not a valid enum value for path 'category'.">>
     ELSE <<>>)

\* The message of the ValidationError DocumentModel.create throws, "" when
\* the fields are valid.
SchemaError(title, content, category) ==
    LET failures == SchemaFailures(title, content, category)
    IN  IF Len(failures) = 0 THEN ""
        ELSE "Document validation failed: " \o JoinMessages(failures)

\* The tags of the schema: each is trimmed.
TrimEach(tags) == [i \in 1..Len(tags) |-> Trim(tags[i])]

\* category || 'other'
CategoryOrOther(category) == IF category = Absent THEN "other" ELSE category

\* ------------------------------------------------------------------------
\* processAndSaveDocument
\* ------------------------------------------------------------------------

TitleFees == <<"F", "e", "e", "s">>

TitlePadded == <<" ", "F", "e", "e", "s", " ">>

TitleShort == <<"a", "b">>

TitleShortPadded == <<" ", "a", "b", " ">>

TagOffice == <<" ", "t", "1">>

\* The tags field of a body: absent, an array of strings, or a string.
NoTags == [given |-> FALSE, isArray |-> FALSE, items |-> <<>>]

TagsArray(items) == [given |-> TRUE, isArray |-> TRUE, items |-> items]

\* A string where an array is expected; the schema casts it to an array of
\* one string.
TagsString(s) == [given |-> TRUE, isArray |-> FALSE, items |-> <<s>>]

\* The handlers that ingest a document.
UploadOps == {"uploadDocument", "uploadFile"}

\* A document as DocumentModel.create stores it, lines 525-534.
NewDocument(id, title, content, category, tags, embedding, userId) ==
    [id |-> id, title |-> Trim(title), content |-> content,
     category |-> CategoryOrOther(category), tags |-> TrimEach(tags),
     embedding |-> embedding, uploadedBy |-> userId, isPublic |-> TRUE,
     isChunk |-> FALSE, parentDocumentId |-> NoId,
     chunkIndex |-> NoNumber, chunkCount |-> NoNumber]

\* A number in decimal digits, as a template literal writes it.
RECURSIVE Decimal(_)
Decimal(n) ==
    IF n < 10 THEN <<Digits[n + 1]>>
    ELSE Decimal(n \div 10) \o <<Digits[(n % 10) + 1]>>

\* Line 493: the title, ' (Chunk ', index + 1, '/', chunks.length, ')'.
ChunkTitle(title, i, n) ==
    title \o <<" ", "(", "C", "h", "u", "n", "k", " ">> \o Decimal(i)
          \o <<"/">> \o Decimal(n) \o <<")">>

\* The chunk document of lines 492-504 for a task whose embedding is there.
NewChunkDocument(task) ==
    [id |-> task.id,
     title |-> Trim(ChunkTitle(task.title, task.position, task.chunkCount)),
     content |-> task.chunk.text,
     category |-> CategoryOrOther(task.category), tags |-> TrimEach(task.tags),
     embedding |-> task.embedding, uploadedBy |-> task.userId, isPublic |-> TRUE,
     isChunk |-> TRUE, parentDocumentId |-> task.parentDocumentId,
     chunkIndex |-> task.chunk.index, chunkCount |-> task.chunkCount]

\* The promises of chunks.map of lines 489-505, each at its first await.
ChunkTasks(c, parentId) ==
    {[id |-> parentId + i, position |-> i, chunk |-> c.locals.chunks[i],
      chunkCount |-> Len(c.locals.chunks), title |-> c.locals.title,
      category |-> c.locals.category, tags |-> c.locals.tags, userId |-> c.user,
      parentDocumentId |-> parentId, pc |-> "embed", embedding |-> Null] :
        i \in 1..Len(c.locals.chunks)}

\* The catch of uploadDocument, lines 592-600, and of uploadFile, 656-663.
UploadFailure(op, message) ==
    Failure(500, IF op = "uploadFile" THEN "Error processing uploaded file"
                 ELSE "Error uploading document", message)

\* Lines 587-591 and 652-656 with the value processAndSaveDocument returns.
UploadResult(op, id, title, category, chunksCreated) ==
    Success(201, IF op = "uploadFile" THEN "File uploaded and processed successfully"
                 ELSE "Document uploaded successfully",
        [document |-> [id |-> id, title |-> Trim(title),
                       category |-> CategoryOrOther(category),
                       chunksCreated |-> chunksCreated]])

\* Chunking that already starts at the threshold.
NeedsChunkingInclusive(cleanedContent) == Len(cleanedContent) >= ChunkThreshold

\* Line 464: needsChunking.
NeedsChunking(cleanedContent) == Len(cleanedContent) > ChunkThreshold

\* The response of a handler's checks when they answer the request, or else
\* lines 461-470 of processAndSaveDocument: normalization and the choice
\* between the two ingestion paths, up to the first await.
Process(op, user, title, content, category, tags, rejected) ==
    LET cleanedContent == cleanText(content)
        needsChunking == NeedsChunking(cleanedContent)
        chunks == IF needsChunking
                  THEN chunkText(cleanedContent, IngestChunkSize, IngestOverlap)
                  ELSE <<>>
    IN  /\ rejected = NoResponse =>
              /\ uploads < MaxUploads
              /\ Cardinality(docs) <= MaxStored
        /\ res' = rejected
        /\ uploads' = IF rejected = NoResponse THEN uploads + 1 ELSE uploads
        /\ call' =
             IF rejected # NoResponse
             THEN Responding(Running(op, "start", user))
             ELSE [Running(op, IF needsChunking THEN "parent" ELSE "embed", user)
                   EXCEPT !.locals.title = title,
                          !.locals.category = category,
                          !.locals.tags = tags,
                          !.locals.cleanedContent = cleanedContent,
                          !.locals.chunks = chunks]
        /\ UNCHANGED <<chats, docs, nextId, reply, ingest, probe, peer>>

\* Lines 474-505: the parent document is created and the chunk promises are
\* started; a create that throws ends the request.
UploadParent(storeOk) ==
    /\ call.op \in UploadOps /\ call.pc = "parent"
    /\ LET invalid == SchemaError(call.locals.title, call.locals.cleanedContent,
                                  CategoryOrOther(call.locals.category))
       IN  IF storeOk /\ invalid = ""
           THEN /\ docs' = docs \cup
                      {[NewDocument(nextId, call.locals.title, call.locals.cleanedContent,
                                    call.locals.category, call.locals.tags, <<>>, call.user)
                        EXCEPT !.chunkCount = Len(call.locals.chunks)]}
                /\ nextId' = nextId + 1 + Len(call.locals.chunks)
                /\ ingest' = ingest \cup ChunkTasks(call, nextId)
                /\ call' = [call EXCEPT !.pc = "await", !.locals.document = nextId,
                                        !.locals.cleanedContent = <<>>,
                                        !.locals.chunks = <<>>]
                /\ res' = res
           ELSE /\ call' = Responding(call)
                /\ res' = UploadFailure(call.op, IF storeOk THEN invalid ELSE "store")
                /\ UNCHANGED <<docs, nextId, ingest>>
    /\ UNCHANGED <<chats, uploads, reply, probe, peer>>

\* The promises of chunkPromises for the chunks of a parent document.
PromisesOf(tasks, parentId) == {t \in tasks : t.parentDocumentId = parentId}

\* The promise has not settled.
Pending(task) == task.pc \in {"embed", "create"}

\* The handler is waiting in Promise.all of line 507 for the promises of the
\* parent document of this task.
Awaiting(task) ==
    /\ call.op \in UploadOps /\ call.pc = "await"
    /\ call.locals.document = task.parentDocumentId

\* The promise is rejected: Promise.all rejects with the first rejection and
\* the catch responds, while the pending promises go on. The promises that
\* have settled are kept as long as Promise.all waits for the others.
Rejected(task, message) ==
    IF Awaiting(task)
    THEN /\ ingest' = {t \in ingest \ {task} :
                          t.parentDocumentId # task.parentDocumentId \/ Pending(t)}
         /\ call' = Responding(call)
         /\ res' = UploadFailure(call.op, message)
    ELSE /\ ingest' = ingest \ {task}
         /\ UNCHANGED <<call, res>>

\* The promise is fulfilled: when it is the last one of its parent,
\* Promise.all is fulfilled and lines 511-517 and the handler respond.
Fulfilled(task) ==
    IF ~Awaiting(task)
    THEN /\ ingest' = ingest \ {task}
         /\ UNCHANGED <<call, res>>
    ELSE IF \A t \in PromisesOf(ingest, task.parentDocumentId) \ {task} :
                t.pc = "fulfilled"
    THEN /\ ingest' = ingest \ PromisesOf(ingest, task.parentDocumentId)
         /\ call' = Responding(call)
         /\ res' = UploadResult(call.op, call.locals.document, call.locals.title,
                                call.locals.category, task.chunkCount)
    ELSE /\ ingest' = (ingest \ {task}) \cup {[task EXCEPT !.pc = "fulfilled"]}
         /\ UNCHANGED <<call, res>>

\* Line 490 in one chunk promise: an embedding that throws rejects the
\* promise, and the chunk document is not created.
ChunkEmbed(task, key, out) ==
    /\ task \in ingest /\ task.pc = "embed"
    /\ LET e == generateEmbedding(key, out)
       IN  IF e.ok
           THEN /\ ingest' = (ingest \ {task}) \cup
                             {[task EXCEPT !.pc = "create", !.embedding = e.value]}
                /\ UNCHANGED <<call, res>>
           ELSE Rejected(task, e.error)
    /\ UNCHANGED <<chats, docs, nextId, uploads, reply, probe, peer>>

\* Lines 492-504 in one chunk promise: the create of the chunk document,
\* which fulfils the promise, or rejects it when it throws.
ChunkCreate(task, storeOk) ==
    /\ task \in ingest /\ task.pc = "create"
    /\ LET invalid == SchemaError(ChunkTitle(task.title, task.position, task.chunkCount),
                                  task.chunk.text, CategoryOrOther(task.category))
       IN  IF storeOk /\ invalid = ""
           THEN /\ docs' = docs \cup {NewChunkDocument(task)}
                /\ Fulfilled(task)
           ELSE /\ docs' = docs
                /\ Rejected(task, IF storeOk THEN invalid ELSE "store")
    /\ UNCHANGED <<chats, nextId, uploads, reply, probe, peer>>

\* Line 522: the embedding of a document that is not chunked; when it throws
\* the request ends and nothing is stored.
UploadEmbed(key, out) ==
    /\ call.op \in UploadOps /\ call.pc = "embed"
    /\ LET e == generateEmbedding(key, out)
       IN  IF e.ok
           THEN /\ call' = [call EXCEPT !.pc = "create", !.locals.queryEmbedding = e.value]
                /\ res' = res
           ELSE /\ call' = Responding(call)
                /\ res' = UploadFailure(call.op, e.error)
    /\ UNCHANGED <<chats, docs, nextId, uploads, reply, ingest, probe, peer>>

\* Lines 525-543 and the response of the handler.
UploadCreate(storeOk) ==
    /\ call.op \in UploadOps /\ call.pc = "create"
    /\ LET invalid == SchemaError(call.locals.title, call.locals.cleanedContent,
                                  CategoryOrOther(call.locals.category))
       IN  IF storeOk /\ invalid = ""
           THEN /\ docs' = docs \cup
                      {NewDocument(nextId, call.locals.title, call.locals.cleanedContent,
                                   call.locals.category, call.locals.tags,
                                   call.locals.queryEmbedding, call.user)}
                /\ nextId' = nextId + 1
                /\ res' = UploadResult(call.op, nextId, call.locals.title,
                                       call.locals.category, NoNumber)
           ELSE /\ res' = UploadFailure(call.op, IF storeOk THEN invalid ELSE "store")
                /\ UNCHANGED <<docs, nextId>>
    /\ call' = Responding(call)
    /\ UNCHANGED <<chats, uploads, reply, ingest, probe, peer>>

\* ------------------------------------------------------------------------
\* uploadDocument  (POST /api/chat/upload/text)
\* ------------------------------------------------------------------------

\* The requests the clients send: contents below, at and above the chunking
\* threshold, and one request for each way of being rejected.
UploadRequests ==
    {[user |-> "u1",
      body |-> [title |-> TitleFees, content |-> c, category |-> "fees", tags |-> NoTags]] :
        c \in {ContentShort, ContentAtThreshold, ContentOverThreshold}}
    \cup
    {[user |-> "u1", body |-> [title |-> t.title, content |-> ContentShort,
                               category |-> t.category, tags |-> t.tags]] :
        t \in {[title |-> TitlePadded, category |-> Absent, tags |-> TagsArray(<<TagOffice>>)],
               [title |-> TitleShortPadded, category |-> "fees", tags |-> NoTags],
               [title |-> TitleFees, category |-> "misc", tags |-> NoTags],
               [title |-> TitleFees, category |-> "fees", tags |-> TagsString(TagOffice)]}}
    \cup
    {[user |-> "u1", body |-> [title |-> TitleFees, content |-> ContentTiny,
                               category |-> "fees", tags |-> NoTags]],
     [user |-> "u2", body |-> [title |-> TitleFees, content |-> ContentShort,
                               category |-> "fees", tags |-> NoTags]],
     [user |-> NoUser, body |-> [title |-> TitleFees, content |-> ContentShort,
                                 category |-> "fees", tags |-> NoTags]]}

\* The validation chain of the /upload/text route, which trims the title and
\* the content: the title has 3..200 characters, the content at least 10,
\* the category is of the enumeration and the tags are an array when they
\* are present.
UploadValidationFails(body) ==
    \/ Len(Trim(body.title)) < 3
    \/ Len(Trim(body.title)) > TitleMaxLen
    \/ Len(Trim(body.content)) < 10
    \/ (body.category # Absent /\ body.category \notin Categories)
    \/ (body.tags.given /\ ~body.tags.isArray)

\* The route and lines 554-585: authentication, authorization, the
\* validation chain and the checks of the handler, then the ingestion of
\* the title and the content as the chain trimmed them.
UploadStart(user, body) ==
    /\ Quiet
    /\ LET title == Trim(body.title)
           content == Trim(body.content)
           rejected == FirstResponse(<<
               protect(user),
               authorize(DocumentManagers, user),
               IF UploadValidationFails(body)
               THEN Failure(400, "Validation failed", "") ELSE NoResponse,
               IF ~Authenticated(user)
               THEN Failure(401, "Not authorized", "") ELSE NoResponse,
               IF Len(title) = 0 \/ Len(content) = 0
               THEN Failure(400, "Please provide title and content", "")
               ELSE NoResponse>>)
       IN  Process("uploadDocument", user, title, content, body.category,
                   body.tags.items, rejected)

\* ------------------------------------------------------------------------
\* uploadFile  (POST /api/chat/upload/file)
\* ------------------------------------------------------------------------

MimePdf == <<"a", "p", "p", "l", "i", "c", "a", "t", "i", "o", "n", "/", "p", "d", "f">>

MimeText == <<"t", "e", "x", "t", "/", "p", "l", "a", "i", "n">>

MimeOctet == <<"a", "p", "p", "l", "i", "c", "a", "t", "i", "o", "n", "/",
               "o", "c", "t", "e", "t", "-", "s", "t", "r", "e", "a", "m">>

MimeImage == <<"i", "m", "a", "g", "e", "/", "p", "n", "g">>

NameFeesTxt == <<"f", "e", "e", "s", ".", "t", "x", "t">>

NameFeesPdf == <<"f", "e", "e", "s", ".", "p", "d", "f">>

NameFeesPng == <<"f", "e", "e", "s", ".", "p", "n", "g">>

\* No file came with the request.
NoFile == [present |-> FALSE, originalname |-> <<>>, mimetype |-> <<>>, text |-> <<>>]

\* A file of the request: text is the content of its buffer as UTF-8.
File(originalname, mimetype, text) ==
    [present |-> TRUE, originalname |-> originalname, mimetype |-> mimetype,
     text |-> text]

\* s.endsWith(suffix)
EndsWith(s, suffix) ==
    /\ Len(suffix) <= Len(s)
    /\ SubSeq(s, Len(s) - Len(suffix) + 1, Len(s)) = suffix

\* s.includes(part)
Includes(s, part) ==
    \E i \in 1..(Len(s) - Len(part) + 1) : SubSeq(s, i, i + Len(part) - 1) = part

\* The fileFilter of the route, lines 20-39 of routes/chat.ts: the files
\* multer accepts.
FileAccepted(file) ==
    \/ file.mimetype = MimePdf
    \/ file.mimetype = MimeText
    \/ EndsWith(file.originalname, <<".", "p", "d", "f">>)
    \/ EndsWith(file.originalname, <<".", "t", "x", "t">>)

\* A call of the parser that settles: data.text, or the message of the error.
Parsed(text) == [ok |-> TRUE, text |-> text, message |-> ""]

ParseError(message) == [ok |-> FALSE, text |-> <<>>, message |-> message]

\* What require('pdf-parse') and the parser can come back with for a buffer:
\* exported says whether lines 148-155 find a function, call is what
\* extractFunc(buffer) settles with, instance what new extractFunc(buffer)
\* gives ("none" when extractFunc is not a constructor, as an async function
\* is not) and retry what the instance or its parse() settles with.
PdfOutcomes ==
    {[exported |-> TRUE, call |-> Parsed(ContentShort), instance |-> "none",
      retry |-> ParseError("")],
     [exported |-> TRUE, call |-> Parsed(<<>>), instance |-> "none",
      retry |-> ParseError("")],
     [exported |-> TRUE, call |-> ParseError("Invalid PDF structure"),
      instance |-> "none", retry |-> ParseError("")],
     [exported |-> TRUE,
      call |-> ParseError("Class constructor PDFParse cannot be invoked without 'new'"),
      instance |-> "parser", retry |-> Parsed(ContentShort)],
     [exported |-> TRUE,
      call |-> ParseError("Class constructor PDFParse cannot be invoked without 'new'"),
      instance |-> "thenable", retry |-> ParseError("Invalid PDF structure")],
     [exported |-> TRUE,
      call |-> ParseError("Class constructor PDFParse cannot be invoked without 'new'"),
      instance |-> "plain", retry |-> ParseError("")],
     [exported |-> FALSE, call |-> ParseError(""), instance |-> "none",
      retry |-> ParseError("")]}

\* Lines 141-184 of textProcessing.ts: the text of a PDF. A call of
\* extractFunc that throws is tried again with new; the error of whichever
\* step throws last is reported.
ParsePdf(pdf) ==
    LET failure == "Failed to extract text from PDF file: "
    IN  IF ~pdf.exported
        THEN Thrown(failure \o
                    "pdf-parse module structure unknown (no function or default export found)")
        ELSE IF pdf.call.ok THEN Returned(pdf.call.text)
        ELSE IF pdf.instance = "none"
        THEN Thrown(failure \o "extractFunc is not a constructor")
        ELSE IF pdf.instance \in {"thenable", "parser"}
        THEN IF pdf.retry.ok THEN Returned(pdf.retry.text)
             ELSE Thrown(failure \o pdf.retry.message)
        ELSE Thrown(failure \o pdf.call.message)

\* Line 140: the file is taken for a PDF.
IsPdf(fileType) == fileType = MimePdf \/ EndsWith(fileType, <<".", "p", "d", "f">>)

\* extractTextFromFile(buffer, fileType), textProcessing.ts 135-194.
extractTextFromFile(file, fileType, pdf) ==
    IF IsPdf(fileType)
    THEN ParsePdf(pdf)
    ELSE IF Includes(fileType, <<"t", "e", "x", "t">>)
            \/ Includes(fileType, <<"t", "x", "t">>)
    THEN Returned(file.text)
    ELSE Thrown("Unsupported file type: " \o JoinChars(fileType)
                \o ". Supported: .txt, .pdf")

\* The requests the clients send: text files without a title with contents
\* below, at and above the chunking threshold, a PDF with a title, and one
\* request for each way of being rejected.
FileRequests ==
    {[user |-> "u1", body |-> [title |-> f.title, category |-> f.category, tags |-> NoTags],
      file |-> f.file] :
        f \in {[title |-> <<>>, category |-> Absent,
                file |-> File(NameFeesTxt, MimeText, ContentShort)],
               [title |-> <<>>, category |-> Absent,
                file |-> File(NameFeesTxt, MimeText, ContentAtThreshold)],
               [title |-> <<>>, category |-> Absent,
                file |-> File(NameFeesTxt, MimeText, ContentOverThreshold)],
               [title |-> TitlePadded, category |-> "fees",
                file |-> File(NameFeesPdf, MimePdf, <<>>)],
               [title |-> <<>>, category |-> "misc",
                file |-> File(NameFeesTxt, <<>>, ContentShort)],
               [title |-> <<>>, category |-> Absent,
                file |-> File(NameFeesTxt, MimeText, <<" ", "\n">>)],
               [title |-> <<>>, category |-> Absent,
                file |-> File(NameFeesTxt, MimeOctet, ContentShort)],
               [title |-> <<>>, category |-> Absent,
                file |-> File(NameFeesPng, MimeImage, ContentShort)],
               [title |-> <<>>, category |-> Absent, file |-> NoFile]}}
    \cup
    {[user |-> u, body |-> [title |-> <<>>, category |-> Absent, tags |-> NoTags],
      file |-> File(NameFeesTxt, MimeText, ContentShort)] : u \in {"u2", NoUser}}

\* Line 628: file.mimetype || file.originalname.
FileType(file) == IF Len(file.mimetype) > 0 THEN file.mimetype ELSE file.originalname

\* What the parser can come back with for the file of a request: it is
\* called for a PDF only.
ParserOutcomes(file) ==
    IF IsPdf(FileType(file)) THEN PdfOutcomes
    ELSE {CHOOSE pdf \in PdfOutcomes : ~pdf.exported}

\* The route and lines 610-650: authentication, authorization, multer, the
\* checks of the handler and the extraction of the text, then the ingestion
\* under the title of the body or else the name of the file.
FileStart(user, body, file, pdf) ==
    /\ Quiet
    /\ LET extracted == extractTextFromFile(file, FileType(file), pdf)
           rejected == FirstResponse(<<
               protect(user),
               authorize(DocumentManagers, user),
               IF file.present /\ ~FileAccepted(file)
               THEN Failure(500, "Only .pdf and .txt files are supported", "")
               ELSE NoResponse,
               IF ~Authenticated(user)
               THEN Failure(401, "Not authorized", "") ELSE NoResponse,
               IF ~file.present
               THEN Failure(400, "Please upload a file", "") ELSE NoResponse,
               IF ~extracted.ok
               THEN UploadFailure("uploadFile", extracted.error) ELSE NoResponse,
               IF Len(Trim(extracted.value)) = 0
               THEN Failure(400, "Could not extract text from the uploaded file", "")
               ELSE NoResponse>>)
           title == IF Len(body.title) > 0 THEN body.title ELSE file.originalname
       IN  Process("uploadFile", user, title, extracted.value, body.category,
                   body.tags.items, rejected)

\* ------------------------------------------------------------------------
\* deleteDocument  (DELETE /api/chat/documents/:id)
\* ------------------------------------------------------------------------

\* DocumentModel.findById: the stored documents with this id.
FindById(store, id) == {d \in store : d.id = id}

\* Line 755: the document is a parent with chunks.
HasChunks(document) == ~document.isChunk /\ document.chunkCount > 0

\* The route and lines 731-758: authentication, authorization, findById and
\* the choice of the cascade.
DeleteStart(user, id, storeOk) ==
    /\ Quiet
    /\ LET found == FindById(docs, id)
           rejected == FirstResponse(<<
               protect(user),
               authorize(DocumentManagers, user),
               IF ~Authenticated(user)
               THEN Failure(401, "Not authorized", "") ELSE NoResponse,
               IF ~storeOk
               THEN Failure(500, "Error deleting document", "store") ELSE NoResponse,
               IF found = {}
               THEN Failure(404, "Document not found", "") ELSE NoResponse>>)
           document == CHOOSE d \in found : TRUE
       IN  /\ res' = rejected
           /\ call' =
                IF rejected # NoResponse
                THEN Responding(Running("deleteDocument", "start", user))
                ELSE [Running("deleteDocument",
                              IF HasChunks(document) THEN "chunks" ELSE "one", user)
                      EXCEPT !.locals.document = id]
    /\ UNCHANGED <<chats, docs, nextId, uploads, reply, ingest, probe, peer>>

\* deleteDocument detaching the chunks from their parent instead of deleting
\* them.
DeleteChunksDetaching(storeOk) ==
    /\ call.op = "deleteDocument" /\ call.pc = "chunks"
    /\ IF storeOk
       THEN /\ docs' = {IF d.parentDocumentId = call.locals.document
                        THEN [d EXCEPT !.parentDocumentId = NoId] ELSE d : d \in docs}
            /\ call' = [call EXCEPT !.pc = "one"]
            /\ res' = res
       ELSE /\ docs' = docs
            /\ call' = Responding(call)
            /\ res' = Failure(500, "Error deleting document", "store")
    /\ UNCHANGED <<chats, nextId, uploads, reply, ingest, probe, peer>>

\* Line 756: DocumentModel.deleteMany({parentDocumentId: id}).
DeleteChunks(storeOk) ==
    /\ call.op = "deleteDocument" /\ call.pc = "chunks"
    /\ IF storeOk
       THEN /\ docs' = {d \in docs : d.parentDocumentId # call.locals.document}
            /\ call' = [call EXCEPT !.pc = "one"]
            /\ res' = res
       ELSE /\ docs' = docs
            /\ call' = Responding(call)
            /\ res' = Failure(500, "Error deleting document", "store")
    /\ UNCHANGED <<chats, nextId, uploads, reply, ingest, probe, peer>>

\* Lines 760-767: document.deleteOne() and the response.
DeleteOne(storeOk) ==
    /\ call.op = "deleteDocument" /\ call.pc = "one"
    /\ IF storeOk
       THEN /\ docs' = {d \in docs : d.id # call.locals.document}
            /\ res' = Success(200, "Document deleted successfully", NoData)
       ELSE /\ docs' = docs
            /\ res' = Failure(500, "Error deleting document", "store")
    /\ call' = Responding(call)
    /\ UNCHANGED <<chats, nextId, uploads, reply, ingest, probe, peer>>

\* ------------------------------------------------------------------------
\* getDocuments  (GET /api/chat/documents)
\* ------------------------------------------------------------------------

ParamTrue == <<"t", "r", "u", "e">>

\* The user records populate('uploadedBy', 'name email') reads.
NameOf(user) == IF user = "u1" THEN "Staff One" ELSE "Student Two"

EmailOf(user) == IF user = "u1" THEN "staff@astu.edu.et" ELSE "student@astu.edu.et"

\* A document as find().populate('uploadedBy', 'name email') returns it.
Populated(d) ==
    [d EXCEPT !.uploadedBy = [id |-> d.uploadedBy, name |-> NameOf(d.uploadedBy),
                              email |-> EmailOf(d.uploadedBy)]]

\* The queries the clients send with GET /documents: the defaults, one
\* category, and the second page of pages of one document with the chunks.
DocumentsQueries ==
    {[category |-> Absent, limit |-> NoParam, page |-> NoParam, includeChunks |-> NoParam],
     [category |-> "fees", limit |-> NoParam, page |-> NoParam, includeChunks |-> NoParam],
     [category |-> "lab", limit |-> <<"2">>, page |-> <<"1">>, includeChunks |-> <<"1">>],
     [category |-> Absent, limit |-> <<"1">>, page |-> <<"2">>, includeChunks |-> ParamTrue]}

\* The GET /documents requests the clients send: of a member of staff, of a
\* student and without a token.
DocumentsRequests ==
    {[user |-> u, query |-> q] : u \in Users \cup {NoUser}, q \in DocumentsQueries}

\* Lines 679-687: the documents the query {isPublic: true}, with isChunk:
\* false unless includeChunks is 'true' and with the category when the
\* request names one, matches.
DocumentsMatching(store, category, includeChunks) ==
    {d \in store : /\ d.isPublic
                   /\ ~includeChunks => ~d.isChunk
                   /\ category # Absent => d.category = category}

\* The /documents route and lines 672-691: protect, the query and the
\* pagination parameters.
DocumentsStart(user, query) ==
    /\ Quiet
    /\ LET rejected == protect(user)
       IN  /\ res' = rejected
           /\ call' =
                IF rejected # NoResponse
                THEN Responding(Running("getDocuments", "start", user))
                ELSE [Running("getDocuments", "find", user) EXCEPT
                      !.locals.category = query.category,
                      !.locals.includeChunks = (query.includeChunks = ParamTrue),
                      !.locals.limitNum =
                          ParseInt(IF query.limit = NoParam THEN <<"2", "0">>
                                   ELSE query.limit),
                      !.locals.pageNum =
                          ParseInt(IF query.page = NoParam THEN <<"1">> ELSE query.page)]
    /\ UNCHANGED <<chats, docs, nextId, uploads, reply, ingest, probe, peer>>

\* Lines 694-698: DocumentModel.find with populate, sort, limit and skip. The
\* model does not keep createdAt, so the sort may put the matching documents
\* in any order.
DocumentsFind(storeOk) ==
    /\ call.op = "getDocuments" /\ call.pc = "find"
    /\ LET matching == DocumentsMatching(docs, call.locals.category,
                                         call.locals.includeChunks)
           skip == (call.locals.pageNum - 1) * call.locals.limitNum
           taken == Max(0, Min(call.locals.limitNum, Cardinality(matching) - skip))
       IN  IF storeOk
           THEN /\ \E order \in Orders(matching) :
                     call' = [call EXCEPT
                                !.pc = "count",
                                !.locals.documents =
                                    [k \in 1..taken |-> Populated(order[skip + k])]]
                /\ res' = res
           ELSE /\ call' = Responding(call)
                /\ res' = Failure(500, "Error fetching documents", "store")
    /\ UNCHANGED <<chats, docs, nextId, uploads, reply, ingest, probe, peer>>

\* Lines 700-713: DocumentModel.countDocuments and the response.
DocumentsCount(storeOk) ==
    /\ call.op = "getDocuments" /\ call.pc = "count"
    /\ LET total == Cardinality(DocumentsMatching(docs, call.locals.category,
                                                  call.locals.includeChunks))
       IN  res' = IF storeOk
                  THEN Success(200, "",
                         [documents |-> call.locals.documents,
                          pagination |-> [total |-> total,
                                          page |-> call.locals.pageNum,
                                          pages |-> CeilDiv(total, call.locals.limitNum)]])
                  ELSE Failure(500, "Error fetching documents", "store")
    /\ call' = Responding(call)
    /\ UNCHANGED <<chats, docs, nextId, uploads, reply, ingest, probe, peer>>

\* ------------------------------------------------------------------------
\* A second request to the ingestion service, handled at the same time
\* ------------------------------------------------------------------------

\* The ids the clients send with DELETE /documents/:id: those of the stored
\* documents that are not chunks, of the first chunk of each chunked
\* document, and the next id, which names nothing.
DeletedIds ==
    {d.id : d \in {e \in docs : ~e.isChunk \/ e.chunkIndex = 0}} \cup {nextId}

\* Lines 744-758 in a second request, a deleteDocument of a stored document
\* by a user who may: findById and the choice of the cascade.
PeerDeleteStart(user, id) ==
    /\ Overlapping
    /\ protect(user) = NoResponse /\ authorize(DocumentManagers, user) = NoResponse
    /\ FindById(docs, id) # {}
    /\ peer' = [Running("deleteDocument",
                        IF HasChunks(CHOOSE d \in FindById(docs, id) : TRUE)
                        THEN "chunks" ELSE "one", user)
                EXCEPT !.locals.document = id]
    /\ UNCHANGED <<chats, docs, nextId, uploads, call, reply, res, ingest, probe>>

\* Line 756 in the second request; when it throws, the response, which the
\* client receives.
PeerDeleteChunks(storeOk) ==
    /\ peer.op = "deleteDocument" /\ peer.pc = "chunks"
    /\ IF storeOk
       THEN /\ docs' = {d \in docs : d.parentDocumentId # peer.locals.document}
            /\ peer' = [peer EXCEPT !.pc = "one"]
       ELSE /\ docs' = docs
            /\ peer' = IdleCall
    /\ UNCHANGED <<chats, nextId, uploads, call, reply, res, ingest, probe>>

\* Lines 760-767 in the second request: deleteOne and the response, which
\* the client receives.
PeerDeleteOne(storeOk) ==
    /\ peer.op = "deleteDocument" /\ peer.pc = "one"
    /\ docs' = IF storeOk THEN {d \in docs : d.id # peer.locals.document} ELSE docs
    /\ peer' = IdleCall
    /\ UNCHANGED <<chats, nextId, uploads, call, reply, res, ingest, probe>>

\* The embedding service answers with a vector, or is not reached for want
\* of a key.
LargeEmbeddingCalls ==
    {c \in ServiceCalls(EmbeddingOutcomes) :
        ~c.key \/ (c.out.kind = "vector" /\ c.out.dims = EmbeddingDims)}

\* The POST /upload/text requests that arrive while another request is being
\* handled: a content that is not chunked.
PeerUploadRequests ==
    {[user |-> "u1", body |-> [title |-> TitlePadded, content |-> ContentShort,
                               category |-> "fees", tags |-> NoTags]]}

\* Lines 554-585 and 461-470 in a second request, an uploadDocument that
\* passes the checks with a content that is not chunked, up to the await of
\* line 522.
PeerUploadStart(user, body) ==
    /\ Overlapping
    /\ protect(user) = NoResponse /\ authorize(DocumentManagers, user) = NoResponse
    /\ ~UploadValidationFails(body)
    /\ ~NeedsChunking(cleanText(Trim(body.content)))
    /\ uploads < MaxUploads + MaxPeerUploads
    /\ uploads' = uploads + 1
    /\ peer' = [Running("uploadDocument", "embed", user) EXCEPT
                 !.locals.title = Trim(body.title),
                 !.locals.category = body.category,
                 !.locals.tags = body.tags.items,
                 !.locals.cleanedContent = cleanText(Trim(body.content))]
    /\ UNCHANGED <<chats, docs, nextId, call, reply, res, ingest, probe>>

\* Line 522 in the second request; when the embedding throws, the response,
\* which the client receives.
PeerUploadEmbed(key, out) ==
    /\ peer.op = "uploadDocument" /\ peer.pc = "embed"
    /\ LET e == generateEmbedding(key, out)
       IN  peer' = IF e.ok
                   THEN [peer EXCEPT !.pc = "create", !.locals.queryEmbedding = e.value]
                   ELSE IdleCall
    /\ UNCHANGED <<chats, docs, nextId, uploads, call, reply, res, ingest, probe>>

\* Lines 525-543 in the second request: the create and the response, which
\* the client receives.
PeerUploadCreate(storeOk) ==
    /\ peer.op = "uploadDocument" /\ peer.pc = "create"
    /\ LET invalid == SchemaError(peer.locals.title, peer.locals.cleanedContent,
                                  CategoryOrOther(peer.locals.category))
       IN  IF storeOk /\ invalid = ""
           THEN /\ docs' = docs \cup
                      {NewDocument(nextId, peer.locals.title, peer.locals.cleanedContent,
                                   peer.locals.category, peer.locals.tags,
                                   peer.locals.queryEmbedding, peer.user)}
                /\ nextId' = nextId + 1
           ELSE UNCHANGED <<docs, nextId>>
    /\ peer' = IdleCall
    /\ UNCHANGED <<chats, uploads, call, reply, res, ingest, probe>>

\* The second request is an uploadDocument.
PeerUpload ==
    \/ \E r \in PeerUploadRequests : PeerUploadStart(r.user, r.body)
    \/ \E c \in LargeEmbeddingCalls : PeerUploadEmbed(c.key, c.out)
    \/ \E storeOk \in BOOLEAN : PeerUploadCreate(storeOk)

\* The second request is a deleteDocument.
PeerDelete ==
    \/ \E id \in DeletedIds \ {nextId} : PeerDeleteStart("u1", id)
    \/ \E storeOk \in BOOLEAN : PeerDeleteChunks(storeOk)
    \/ \E storeOk \in BOOLEAN : PeerDeleteOne(storeOk)

\* ------------------------------------------------------------------------
\* The ingestion service
\* ------------------------------------------------------------------------

\* The DELETE /documents/:id requests the clients send, and the ways the store
\* answers.
DeleteRequests ==
    {[user |-> "u1", id |-> id, storeOk |-> TRUE] : id \in DeletedIds}
    \cup
    {[user |-> NoUser, id |-> 1, storeOk |-> TRUE],
     [user |-> "u2", id |-> 1, storeOk |-> TRUE],
     [user |-> "u1", id |-> 1, storeOk |-> FALSE]}

InitIngest ==
    /\ chats = <<>>
    /\ docs = {}
    /\ nextId = 1
    /\ uploads = 0
    /\ call = IdleCall
    /\ reply = NoReply
    /\ res = NoResponse
    /\ ingest = {}
    /\ probe = NoProbe
    /\ peer = IdleCall

NextIngest ==
    \/ Deliver
    \/ \E r \in UploadRequests : UploadStart(r.user, r.body)
    \/ \E r \in FileRequests : \E pdf \in ParserOutcomes(r.file) :
         FileStart(r.user, r.body, r.file, pdf)
    \/ \E storeOk \in BOOLEAN : UploadParent(storeOk)
    \/ \E task \in ingest, c \in ServiceCalls(EmbeddingOutcomes) :
         ChunkEmbed(task, c.key, c.out)
    \/ \E task \in ingest, storeOk \in BOOLEAN : ChunkCreate(task, storeOk)
    \/ \E c \in ServiceCalls(EmbeddingOutcomes) : UploadEmbed(c.key, c.out)
    \/ \E storeOk \in BOOLEAN : UploadCreate(storeOk)
    \/ \E r \in DeleteRequests : DeleteStart(r.user, r.id, r.storeOk)
    \/ \E storeOk \in BOOLEAN : DeleteChunks(storeOk)
    \/ \E storeOk \in BOOLEAN : DeleteOne(storeOk)
    \/ PeerDelete

SpecIngest == InitIngest /\ [][NextIngest]_vars

\* ------------------------------------------------------------------------
\* The chat and document endpoints over one store
\* ------------------------------------------------------------------------

\* The uploads of a member of staff: a content that is stored as one document
\* and one that is chunked.
StoreUploadRequests ==
    {[user |-> "u1",
      body |-> [title |-> TitleFees, content |-> c, category |-> "fees", tags |-> NoTags]] :
        c \in {ContentShort, ContentOverThreshold}}

StoreFileRequests ==
    {[user |-> "u1", body |-> [title |-> <<>>, category |-> Absent, tags |-> NoTags],
      file |-> File(NameFeesTxt, MimeText, ContentShort)]}

\* One question, asked over an empty chat history.
StoreAskRequests ==
    {[user |-> "u1", body |-> [question |-> QFees, language |-> Absent, mode |-> Absent,
                               sessionId |-> Absent]]}

\* No exchange is stored yet.
NoExchange == chats = <<>>

\* The embedding service answers with a vector.
VectorCalls ==
    {c \in ServiceCalls(EmbeddingOutcomes) :
        c.key /\ c.out.kind = "vector" /\ c.out.dims = EmbeddingDims}

\* Every endpoint of the chat routes that reads or writes the document
\* store or the chat history: uploads, listings and deletions of documents,
\* followed while no exchange is stored, one question over the documents
\* stored by then, and the history operations, while a second request
\* deletes a document. The chunk promises of an upload are followed when
\* they succeed; SpecIngest follows their failures.
NextStore ==
    \/ Deliver
    \/ \E r \in StoreUploadRequests : NoExchange /\ UploadStart(r.user, r.body)
    \/ \E r \in StoreFileRequests : \E pdf \in ParserOutcomes(r.file) :
         NoExchange /\ FileStart(r.user, r.body, r.file, pdf)
    \/ \E storeOk \in BOOLEAN : UploadParent(storeOk)
    \/ \E task \in ingest, c \in VectorCalls : ChunkEmbed(task, c.key, c.out)
    \/ \E task \in ingest : ChunkCreate(task, TRUE)
    \/ \E c \in ServiceCalls(EmbeddingOutcomes) : UploadEmbed(c.key, c.out)
    \/ \E storeOk \in BOOLEAN : UploadCreate(storeOk)
    \/ \E r \in DeleteRequests : NoExchange /\ DeleteStart(r.user, r.id, r.storeOk)
    \/ \E storeOk \in BOOLEAN : DeleteChunks(storeOk)
    \/ \E storeOk \in BOOLEAN : DeleteOne(storeOk)
    \/ \E r \in DocumentsRequests : NoExchange /\ DocumentsStart(r.user, r.query)
    \/ \E storeOk \in BOOLEAN : DocumentsFind(storeOk)
    \/ \E storeOk \in BOOLEAN : DocumentsCount(storeOk)
    \/ \E r \in StoreAskRequests : NoExchange /\ AskStart(r.user, r.body, 0)
    \/ \E c \in ServiceCalls(EmbeddingOutcomes) : AskEmbed(c.key, c.out)
    \/ \E out \in VectorSearchResults(call) : AskVector(out)
    \/ \E out \in FindSimilarResults(call) : AskLexical(out)
    \/ \E c \in ServiceCalls(GenerationOutcomes) : AskGenerate(c.key, c.out)
    \/ \E storeOk \in BOOLEAN : AskFind(storeOk)
    \/ \E storeOk \in BOOLEAN : AskSave(storeOk)
    \/ \E r \in HistoryRequests : HistoryStart(r.user, r.query, r.sessionId)
    \/ \E storeOk \in BOOLEAN : HistoryFind(storeOk)
    \/ \E storeOk \in BOOLEAN : HistoryCount(storeOk)
    \/ \E r \in SessionRequests : getChatSession(r.user, r.sessionId, r.storeOk)
    \/ \E r \in SessionRequests : deleteChatSession(r.user, r.sessionId, r.storeOk)
    \/ PeerDelete

SpecStore == InitIngest /\ [][NextStore]_vars

\* ------------------------------------------------------------------------
\* The chat service with clients that name the sessions of other users
\* ------------------------------------------------------------------------

\* The session ids of all the records of the store.
AllSessionIds == UNION {KnownSessionIds(v) : v \in Users}

\* A well-formed question of a user without a session id or with the id of
\* a session of any user.
IsolationAskRequests ==
    {[user |-> u, body |-> [question |-> QFees, language |-> Absent, mode |-> Absent,
                            sessionId |-> sid]] :
        u \in Users, sid \in {Absent} \cup AllSessionIds}

\* GET /history of a user without a session id or with the id of a session
\* of any user.
IsolationHistoryRequests ==
    {[user |-> u, query |-> [limit |-> NoParam, page |-> NoParam], sessionId |-> sid] :
        u \in Users, sid \in {Absent} \cup AllSessionIds}

\* What a second request does in a step when its client names the sessions
\* of any user.
PeerIsolation ==
    \/ \E r \in IsolationAskRequests, time \in 0..MaxTime :
         PeerAskStart(r.user, r.body, time)
    \/ PeerRetrieve
    \/ \E storeOk \in BOOLEAN : PeerFind(storeOk)
    \/ \E storeOk \in BOOLEAN : PeerSave(storeOk)
    \/ \E u \in Users : \E sid \in AllSessionIds : PeerDeleteSession(u, sid)
    \/ PeerDeliver

NextIsolation ==
    \/ Deliver
    \/ \E r \in IsolationAskRequests, time \in 0..MaxTime :
         AskStart(r.user, r.body, time)
    \/ \E c \in ServiceCalls(EmbeddingOutcomes) : AskEmbed(c.key, c.out)
    \/ \E out \in VectorSearchResults(call) : AskVector(out)
    \/ \E out \in FindSimilarResults(call) : AskLexical(out)
    \/ \E c \in ServiceCalls(GenerationOutcomes) : AskGenerate(c.key, c.out)
    \/ \E storeOk \in BOOLEAN : AskFind(storeOk)
    \/ \E storeOk \in BOOLEAN : AskSave(storeOk)
    \/ \E r \in IsolationHistoryRequests : HistoryStart(r.user, r.query, r.sessionId)
    \/ \E storeOk \in BOOLEAN : HistoryFind(storeOk)
    \/ \E storeOk \in BOOLEAN : HistoryCount(storeOk)
    \/ \E r \in SessionRequests : getChatSession(r.user, r.sessionId, r.storeOk)
    \/ \E r \in SessionRequests : deleteChatSession(r.user, r.sessionId, r.storeOk)
    \/ PeerIsolation

SpecIsolation == Init /\ [][NextIsolation]_vars

\* ------------------------------------------------------------------------
\* The chat service over a knowledge base larger than the retrieval limit
\* ------------------------------------------------------------------------

\* One document more than a search returns.
KnowledgeBase == {[SeedDocument EXCEPT !.id = i] : i \in 1..(RetrievalLimit + 1)}

RetrievalRequests ==
    {[user |-> "u1", body |-> [question |-> QFees, language |-> Absent, mode |-> Absent,
                               sessionId |-> Absent]]}

InitRetrieval ==
    /\ chats = <<>>
    /\ docs = KnowledgeBase
    /\ nextId = RetrievalLimit + 2
    /\ uploads = 0
    /\ call = IdleCall
    /\ reply = NoReply
    /\ res = NoResponse
    /\ ingest = {}
    /\ probe = NoProbe
    /\ peer = IdleCall

\* Questions are asked one after the other over a knowledge base of more
\* documents than a search returns, and answered; while a question is being
\* handled, a second request of the user deletes a chat session.
NextRetrieval ==
    \/ Deliver
    \/ \E r \in RetrievalRequests : AskStart(r.user, r.body, 0)
    \/ \E c \in ServiceCalls(EmbeddingOutcomes) : AskEmbed(c.key, c.out)
    \/ \E out \in VectorSearchResults(call) : AskVector(out)
    \/ \E out \in FindSimilarResults(call) : AskLexical(out)
    \/ \E c \in ServiceCalls(GenerationOutcomes) : AskGenerate(c.key, c.out)
    \/ \E storeOk \in BOOLEAN : AskFind(storeOk)
    \/ \E storeOk \in BOOLEAN : AskSave(storeOk)
    \/ \E sid \in KnownSessionIds("u1") : PeerDeleteSession("u1", sid)
    \/ PeerDeliver

SpecRetrieval == InitRetrieval /\ [][NextRetrieval]_vars

\* ------------------------------------------------------------------------
\* Two askQuestion requests handled at the same time
\* ------------------------------------------------------------------------

\* The session id the client sends with both requests.
SharedSessionId == "s1"

\* POST /ask of one user with a session id chosen by the client.
ConcurrentAskRequests ==
    {[user |-> "u1", body |-> [question |-> QFees, language |-> Absent, mode |-> Absent,
                               sessionId |-> SharedSessionId]]}

NextConcurrent ==
    \/ Deliver
    \/ \E r \in ConcurrentAskRequests : AskStart(r.user, r.body, 0)
    \/ \E c \in ServiceCalls(EmbeddingOutcomes) : AskEmbed(c.key, c.out)
    \/ \E out \in VectorSearchResults(call) : AskVector(out)
    \/ \E out \in FindSimilarResults(call) : AskLexical(out)
    \/ \E c \in ServiceCalls(GenerationOutcomes) : AskGenerate(c.key, c.out)
    \/ \E storeOk \in BOOLEAN : AskFind(storeOk)
    \/ \E storeOk \in BOOLEAN : AskSave(storeOk)
    \/ \E r \in ConcurrentAskRequests : PeerAskStart(r.user, r.body, 0)
    \/ PeerRetrieve
    \/ \E storeOk \in BOOLEAN : PeerFind(storeOk)
    \/ \E storeOk \in BOOLEAN : PeerSave(storeOk)

SpecConcurrent == Init /\ [][NextConcurrent]_vars

\* ------------------------------------------------------------------------
\* The ingestion of one large document
\* ------------------------------------------------------------------------

\* 3000 characters after normalization, all of them the same letter.
ContentLarge == Repeat(ChunkThreshold + IngestChunkSize, "a")

\* 3000 characters after normalization, every tenth of them a full stop that
\* no white space follows.
ContentLargeStops ==
    AsSeq([i \in 1..(ChunkThreshold + IngestChunkSize) |->
              IF i % StopEvery = 0 THEN "." ELSE "b"])

LargeUploadRequests ==
    {[user |-> u, body |-> [title |-> TitleFees, content |-> ContentLarge,
                            category |-> "fees", tags |-> NoTags]] :
        u \in {"u1", "u2"}}

LargeFileRequests ==
    {[user |-> "u1", body |-> [title |-> <<>>, category |-> Absent, tags |-> NoTags],
      file |-> File(NameFeesTxt, MimeText, ContentLargeStops)]}

NextIngestLarge ==
    \/ Deliver
    \/ \E r \in LargeUploadRequests : UploadStart(r.user, r.body)
    \/ \E r \in LargeFileRequests : \E pdf \in ParserOutcomes(r.file) :
         FileStart(r.user, r.body, r.file, pdf)
    \/ \E storeOk \in BOOLEAN : UploadParent(storeOk)
    \/ \E task \in ingest, c \in LargeEmbeddingCalls : ChunkEmbed(task, c.key, c.out)
    \/ \E task \in ingest, storeOk \in BOOLEAN : ChunkCreate(task, storeOk)
    \/ PeerUpload

SpecIngestLarge == InitIngest /\ [][NextIngestLarge]_vars

\* ------------------------------------------------------------------------
\* The utility functions called on their own
\* ------------------------------------------------------------------------

\* The texts of at most n characters of the alphabet A.
Texts(A, n) == UNION {[1..k -> A] : k \in 0..n}

\* Characters cleanText treats differently: a letter, the characters of its
\* regular expressions, and a character only trim() removes.
CleanAlphabet == {"a", " ", "\t", "\n", "\r", "\f"}

\* Characters chunkText treats differently.
ChunkAlphabet == {"a", ".", " ", "\n"}

\* The calls cleanText(text).
CleanTextProbes ==
    {[fn |-> "cleanText", pc |-> "call", text |-> t] :
        t \in Texts(CleanAlphabet, MaxTextLen)}

\* The calls chunkText(text, chunkSize, overlap), with an overlap below the
\* chunk size and with one that is not.
ChunkTextProbes ==
    {[fn |-> "chunkText", pc |-> "call", text |-> t, chunkSize |-> n, overlap |-> o] :
        t \in Texts(ChunkAlphabet, MaxTextLen),
        n \in 1..MaxChunkSize, o \in 0..(MaxChunkSize - 1)}

\* cleanText runs and returns.
CleanTextCall ==
    /\ probe.fn = "cleanText" /\ probe.pc = "call"
    /\ probe' = [fn |-> "cleanText", pc |-> "done", text |-> probe.text,
                 result |-> cleanText(probe.text)]
    /\ UNCHANGED <<chats, docs, nextId, uploads, call, reply, res, ingest, peer>>

\* Lines 25-41 of chunkText: the text is cleaned and either returned as a
\* single chunk or taken to the while-loop.
ChunkTextEnter ==
    /\ probe.fn = "chunkText" /\ probe.pc = "call"
    /\ LET cleanedText == cleanText(probe.text)
           small == FitsOneChunk(cleanedText, probe.chunkSize)
       IN  probe' = [fn |-> "chunkText",
                     pc |-> IF small THEN "done" ELSE "loop",
                     text |-> probe.text, chunkSize |-> probe.chunkSize,
                     overlap |-> probe.overlap, cleanedText |-> cleanedText,
                     startChar |-> 0, chunkIndex |-> 0,
                     chunks |-> IF small THEN SingleChunk(cleanedText) ELSE <<>>,
                     iterations |-> 0]
    /\ UNCHANGED <<chats, docs, nextId, uploads, call, reply, res, ingest, peer>>

\* Lines 43-73: one iteration of the while-loop. The model follows a loop
\* for one iteration more than the text has characters.
ChunkTextIterate ==
    /\ probe.fn = "chunkText" /\ probe.pc = "loop"
    /\ probe.startChar < Len(probe.cleanedText)
    /\ probe.iterations <= Len(probe.cleanedText)
    /\ LET s == ChunkStep(probe.cleanedText, probe.chunkSize, probe.overlap,
                          probe.startChar, probe.chunkIndex, probe.chunks)
       IN  probe' = [probe EXCEPT !.startChar = s.startChar,
                                  !.chunkIndex = s.chunkIndex,
                                  !.chunks = s.chunks,
                                  !.iterations = probe.iterations + 1]
    /\ UNCHANGED <<chats, docs, nextId, uploads, call, reply, res, ingest, peer>>

\* Lines 43 and 75: the loop condition fails and the chunks are returned.
ChunkTextReturn ==
    /\ probe.fn = "chunkText" /\ probe.pc = "loop"
    /\ ~(probe.startChar < Len(probe.cleanedText))
    /\ probe' = [probe EXCEPT !.pc = "done"]
    /\ UNCHANGED <<chats, docs, nextId, uploads, call, reply, res, ingest, peer>>

\* The calls generateEmbedding(text) by configuration and by what the
\* Voyage AI endpoint comes back with.
EmbeddingProbes ==
    {[fn |-> "generateEmbedding", pc |-> "call", key |-> key, out |-> out] :
        key \in BOOLEAN, out \in EmbeddingOutcomes}

\* generateEmbedding runs and returns or throws.
GenerateEmbeddingCall ==
    /\ probe.fn = "generateEmbedding" /\ probe.pc = "call"
    /\ probe' = [fn |-> "generateEmbedding", pc |-> "done", key |-> probe.key,
                 out |-> probe.out, result |-> generateEmbedding(probe.key, probe.out)]
    /\ UNCHANGED <<chats, docs, nextId, uploads, call, reply, res, ingest, peer>>

\* ------------------------------------------------------------------------
\* Vector utilities: cosineSimilarity and findTopKSimilar
\* ------------------------------------------------------------------------

RECURSIVE DotProduct(_, _, _)
\* The sum of vecA[i] * vecB[i] over the first n positions.
DotProduct(vecA, vecB, n) ==
    IF n = 0 THEN 0 ELSE DotProduct(vecA, vecB, n - 1) + vecA[n] * vecB[n]

\* ---- IEEE 754 double arithmetic, as far as cosineSimilarity needs it ----
\* The sums of the loop are integers and exact; Math.sqrt, * and / round to
\* the nearest double, ties to even.

\* Naturals beyond the machine integers are sequences of limbs, the least
\* significant first, without leading zero limbs.
Limb == 32768

\* Number of bits of a limb.
LimbBits == 15

RECURSIVE NatOf(_)
\* The limbs of a natural number.
NatOf(n) == IF n = 0 THEN <<>> ELSE <<n % Limb>> \o NatOf(n \div Limb)

RECURSIVE NatTrim(_)
\* The limbs without leading zero limbs.
NatTrim(a) ==
    IF Len(a) = 0 \/ a[Len(a)] # 0 THEN a ELSE NatTrim(SubSeq(a, 1, Len(a) - 1))

RECURSIVE NatCmpFrom(_, _, _)
\* The comparison of two numbers of the same length from limb i downwards.
NatCmpFrom(a, b, i) ==
    IF i = 0 THEN 0
    ELSE IF a[i] < b[i] THEN 0 - 1
    ELSE IF a[i] > b[i] THEN 1
    ELSE NatCmpFrom(a, b, i - 1)

\* -1, 0 or 1 as a is less than, equal to or greater than b.
NatCmp(a, b) ==
    IF Len(a) < Len(b) THEN 0 - 1
    ELSE IF Len(a) > Len(b) THEN 1
    ELSE NatCmpFrom(a, b, Len(a))

RECURSIVE NatAddFrom(_, _, _, _)
\* a + b from limb i upwards with a carry.
NatAddFrom(a, b, i, carry) ==
    IF i > Len(a) /\ i > Len(b) THEN (IF carry = 0 THEN <<>> ELSE <<carry>>)
    ELSE LET t == (IF i <= Len(a) THEN a[i] ELSE 0)
                    + (IF i <= Len(b) THEN b[i] ELSE 0) + carry
         IN  <<t % Limb>> \o NatAddFrom(a, b, i + 1, t \div Limb)

NatAdd(a, b) == NatAddFrom(a, b, 1, 0)

RECURSIVE NatSubFrom(_, _, _, _)
\* a - b from limb i upwards with a borrow, for a >= b.
NatSubFrom(a, b, i, borrow) ==
    IF i > Len(a) THEN <<>>
    ELSE LET t == a[i] - (IF i <= Len(b) THEN b[i] ELSE 0) - borrow
         IN  IF t < 0 THEN <<t + Limb>> \o NatSubFrom(a, b, i + 1, 1)
             ELSE <<t>> \o NatSubFrom(a, b, i + 1, 0)

\* a - b for a >= b.
NatSub(a, b) == NatTrim(NatSubFrom(a, b, 1, 0))

RECURSIVE NatMulSmallFrom(_, _, _, _)
\* a * d from limb i upwards with a carry, for a limb d.
NatMulSmallFrom(a, d, i, carry) ==
    IF i > Len(a) THEN (IF carry = 0 THEN <<>> ELSE <<carry>>)
    ELSE LET t == a[i] * d + carry
         IN  <<t % Limb>> \o NatMulSmallFrom(a, d, i + 1, t \div Limb)

\* a * d for 0 <= d < Limb.
NatMulSmall(a, d) == IF d = 0 THEN <<>> ELSE NatMulSmallFrom(a, d, 1, 0)

\* a * Limb^n.
NatShiftLimbs(a, n) == IF Len(a) = 0 THEN a ELSE [i \in 1..n |-> 0] \o a

RECURSIVE NatMulFrom(_, _, _)
\* a times the limbs i.. of b, as a multiple of Limb^(i-1).
NatMulFrom(a, b, i) ==
    IF i > Len(b) THEN <<>>
    ELSE NatAdd(NatShiftLimbs(NatMulSmall(a, b[i]), i - 1), NatMulFrom(a, b, i + 1))

NatMul(a, b) == NatMulFrom(a, b, 1)

RECURSIVE Pow2(_)
Pow2(n) == IF n = 0 THEN 1 ELSE 2 * Pow2(n - 1)

RECURSIVE BitLen(_)
\* The number of bits of a machine integer n >= 0.
BitLen(n) == IF n = 0 THEN 0 ELSE 1 + BitLen(n \div 2)

\* The number of bits of a.
NatBitLen(a) ==
    IF Len(a) = 0 THEN 0 ELSE (Len(a) - 1) * LimbBits + BitLen(a[Len(a)])

\* a \div 2^s for 0 <= s < LimbBits ... as a * 2^(LimbBits - s) \div Limb.
NatShiftRightBits(a, s) ==
    IF s = 0 THEN a
    ELSE LET m == NatMulSmall(a, Pow2(LimbBits - s))
         IN  SubSeq(m, 2, Len(m))

\* a \div 2^n.
NatShiftRight(a, n) ==
    LET whole == n \div LimbBits
    IN  IF whole >= Len(a) THEN <<>>
        ELSE NatShiftRightBits(SubSeq(a, whole + 1, Len(a)), n % LimbBits)

\* a * 2^n.
NatShiftLeft(a, n) ==
    NatShiftLimbs(NatMulSmall(a, Pow2(n % LimbBits)), n \div LimbBits)

RECURSIVE NatDigit(_, _, _)
\* The quotient digit: rem holds r - est * b; the estimate est is raised
\* while the rest is at least b.
NatDigit(rem, b, est) ==
    IF NatCmp(rem, b) < 0 THEN [digit |-> est, rem |-> rem]
    ELSE NatDigit(NatSub(rem, b), b, est + 1)

\* The greatest digit d with d * b <= r, and r - d * b, for r < b * Limb and
\* a divisor whose leading limb is at least Limb / 2: the two leading limbs
\* of r divided by the leading limb of b plus one never exceed the digit.
NatQuotientDigit(r, b) ==
    IF NatCmp(r, b) < 0 THEN [digit |-> 0, rem |-> r]
    ELSE LET n == Len(b)
             top == (IF Len(r) > n THEN r[n + 1] * Limb ELSE 0) + r[n]
             est == top \div (b[n] + 1)
         IN  NatDigit(NatSub(r, NatMulSmall(b, est)), b, est)

RECURSIVE NatDivFrom(_, _, _, _, _)
RECURSIVE NatDivDigit(_, _, _, _, _)
\* Long division of the limbs i..1 of a by b, with the remainder and the
\* quotient limbs so far.
NatDivFrom(a, b, i, rem, quot) ==
    IF i = 0 THEN [quot |-> quot, exact |-> Len(rem) = 0]
    ELSE NatDivDigit(a, b, i, NatQuotientDigit(NatTrim(<<a[i]>> \o rem), b), quot)

\* The division goes on below limb i with the digit d of that limb, which is
\* left out while the quotient has no limb yet and the digit is 0.
NatDivDigit(a, b, i, d, quot) ==
    IF d.digit = 0 /\ Len(quot) = 0
    THEN NatDivFrom(a, b, i - 1, d.rem, quot)
    ELSE NatDivFrom(a, b, i - 1, d.rem, <<d.digit>> \o quot)

\* The quotient of a by b > 0, and whether the division is exact. Both are
\* first scaled so that the leading limb of the divisor is at least Limb / 2.
NatDiv(a, b) ==
    LET s == LimbBits - BitLen(b[Len(b)])
        dividend == NatShiftLeft(a, s)
    IN  NatDivFrom(dividend, NatShiftLeft(b, s), Len(dividend), <<>>, <<>>)

RECURSIVE IntSqrtBetween(_, _, _)
\* The greatest r in lo..hi with r * r <= n, for machine integers.
IntSqrtBetween(n, lo, hi) ==
    IF lo = hi THEN lo
    ELSE LET mid == (lo + hi + 1) \div 2
         IN  IF mid * mid <= n THEN IntSqrtBetween(n, mid, hi)
             ELSE IntSqrtBetween(n, lo, mid - 1)

RECURSIVE RootShift(_)
\* The k that brings n * 4^k into 2^29 .. 2^31 - 1, for n >= 1.
RootShift(n) == IF n >= 536870912 THEN 0 ELSE 1 + RootShift(4 * n)

\* The digit that a quotient of at most Limb is at most.
DigitOf(q) == IF Len(q) = 0 THEN 0 ELSE IF Len(q) > 1 THEN Limb - 1 ELSE q[1]

RECURSIVE RootDigit(_, _, _)
\* The greatest digit d <= est with (t + d) * d <= v.
RootDigit(t, v, est) ==
    IF NatCmp(NatMulSmall(NatAdd(t, NatOf(est)), est), v) > 0
    THEN RootDigit(t, v, est - 1)
    ELSE est

RECURSIVE NatSqrtFrom(_, _, _)
RECURSIVE NatSqrtDigit(_, _, _, _, _)
\* Square root by hand, a limb for each step: from the root p of a number
\* and the remainder r left by p * p, those of the number times
\* Limb^(2 * steps).
NatSqrtFrom(p, r, steps) ==
    IF steps = 0 THEN [root |-> p, exact |-> Len(r) = 0]
    ELSE IF Len(r) = 0 THEN [root |-> NatShiftLimbs(p, steps), exact |-> TRUE]
    ELSE LET t == NatShiftLimbs(NatMulSmall(p, 2), 1)
             v == NatShiftLimbs(r, 2)
         IN  NatSqrtDigit(p, t, v, RootDigit(t, v, DigitOf(NatDiv(v, t).quot)), steps)

\* The next limb d of the root p, where t = 2 * p * Limb and v is the
\* remainder times Limb^2.
NatSqrtDigit(p, t, v, d, steps) ==
    NatSqrtFrom(NatAdd(NatShiftLimbs(p, 1), NatOf(d)),
                NatSub(v, NatMulSmall(NatAdd(t, NatOf(d)), d)), steps - 1)

\* The number of limbs by which a root is scaled.
RootScale == 3

\* For a machine integer n >= 1 and the k that brings n * 4^k into
\* 2^29 .. 2^31 - 1: the floor of sqrt(n) * 2^k * Limb^RootScale, a natural
\* of 59 bits or more, and whether it is the root itself.
ScaledSqrt(n, k) ==
    LET scaled == n * Pow2(2 * k)
        p == IntSqrtBetween(scaled, 0, 46340)
    IN  NatSqrtFrom(NatOf(p), NatOf(scaled - p * p), RootScale)

\* Width of the significand of a double.
SignificandBits == 53

\* A significand m of 53 bits or 54 with its exponent, brought to 53 bits.
Normalised(m, e) ==
    IF NatBitLen(m) > SignificandBits
    THEN [sign |-> 1, significand |-> NatShiftRight(m, 1), exponent |-> e + 1]
    ELSE [sign |-> 1, significand |-> m, exponent |-> e]

\* The bits kept of a number go up by one when the bits dropped compare (c)
\* above the half of the last bit kept, or equal it and either stand for
\* more than they are or the last bit kept is 1: ties go to even.
RoundHalf(kept, e, exact, c) ==
    IF c > 0 \/ (c = 0 /\ (~exact \/ kept[1] % 2 = 1))
    THEN Normalised(NatAdd(kept, <<1>>), e)
    ELSE Normalised(kept, e)

\* m * 2^e rounded to the bits kept after dropping drop > 0 bits.
RoundKept(m, e, exact, drop, kept) ==
    RoundHalf(kept, e + drop, exact,
              NatCmp(NatSub(m, NatShiftLeft(kept, drop)), NatShiftLeft(<<1>>, drop - 1)))

\* The double nearest to m * 2^e, ties to even, for a natural m > 0 that is
\* the value itself (exact) or its floor with at least two bits more than the
\* significand, and drop as the number of bits it has beyond the 53 of a
\* significand.
RoundBits(m, e, exact, drop) ==
    IF drop <= 0
    THEN [sign |-> 1, significand |-> NatShiftLeft(m, 0 - drop), exponent |-> e + drop]
    ELSE RoundKept(m, e, exact, drop, NatShiftRight(m, drop))

\* The double nearest to m * 2^e: sign (1), significand of 53 bits, exponent.
RoundToDouble(m, e, exact) == RoundBits(m, e, exact, NatBitLen(m) - SignificandBits)

\* A double is its sign (1, 0 - 1, or 0 for the number 0 and for NaN), its
\* significand (a natural of 53 bits, as limbs) and its exponent: the number
\* sign * significand * 2^exponent. The double 0:
DoubleZero == [sign |-> 0, significand |-> <<>>, exponent |-> 0]

\* NaN, the double that 0 / 0 is.
DoubleNaN == [sign |-> 0, significand |-> <<>>, exponent |-> 1024]

\* Infinity with a sign, the double that n / 0 is for n # 0.
DoubleInfinity(sign) == [sign |-> sign, significand |-> <<>>, exponent |-> 1024]

\* The double that a scaled root is.
RootToDouble(s, k) == RoundToDouble(s.root, 0 - k - RootScale * LimbBits, s.exact)

\* Math.sqrt(n) for an integer n >= 0.
DoubleSqrt(n) ==
    IF n = 0 THEN DoubleZero
    ELSE RootToDouble(ScaledSqrt(n, RootShift(n)), RootShift(n))

\* a * b for doubles a, b >= 0.
DoubleTimes(a, b) ==
    IF a.sign = 0 \/ b.sign = 0 THEN DoubleZero
    ELSE RoundToDouble(NatMul(a.significand, b.significand),
                       a.exponent + b.exponent, TRUE)

\* The number of limbs by which a dividend is scaled.
QuotientScale == 8

\* The double that a scaled quotient of a divisor with exponent e is.
QuotientToDouble(q, e) ==
    RoundToDouble(q.quot, 0 - QuotientScale * LimbBits - e, q.exact)

\* n / d for an integer n and a double d >= 0.
DoubleQuotient(n, d) ==
    IF d.sign = 0
    THEN IF n = 0 THEN DoubleNaN ELSE DoubleInfinity(IF n < 0 THEN 0 - 1 ELSE 1)
    ELSE IF n = 0 THEN DoubleZero
    ELSE [QuotientToDouble(NatDiv(NatShiftLimbs(NatOf(Abs(n)), QuotientScale),
                                  d.significand), d.exponent)
            EXCEPT !.sign = IF n < 0 THEN 0 - 1 ELSE 1]

\* a < b for doubles: never for NaN.
DoubleLess(a, b) ==
    IF a = DoubleNaN \/ b = DoubleNaN THEN FALSE
    ELSE IF a.sign # b.sign THEN a.sign < b.sign
    ELSE IF a.sign = 0 THEN FALSE
    ELSE LET below == \/ a.exponent < b.exponent
                      \/ a.exponent = b.exponent /\ NatCmp(a.significand, b.significand) < 0
             above == \/ a.exponent > b.exponent
                      \/ a.exponent = b.exponent /\ NatCmp(a.significand, b.significand) > 0
         IN  IF a.sign = 1 THEN below ELSE above

\* A similarity that cosineSimilarity returns: a double.
Returns(value) == [thrown |-> FALSE, value |-> value]

\* What cosineSimilarity throws on vectors of different lengths.
DimensionError == [thrown |-> TRUE, message |-> "Vectors must have the same dimension"]

\* cosineSimilarity dividing by the norms without looking at them.
cosineSimilarityDividing(vecA, vecB) ==
    IF Len(vecA) # Len(vecB) THEN DimensionError
    ELSE Returns(DoubleQuotient(DotProduct(vecA, vecB, Len(vecA)),
                                DoubleTimes(DoubleSqrt(DotProduct(vecA, vecA, Len(vecA))),
                                            DoubleSqrt(DotProduct(vecB, vecB, Len(vecB))))))

\* Lines 36-42: 0 when a norm is 0, else dotProduct / (normA * normB), for
\* the integer dotProduct and the doubles normA and normB.
Ratio(dotProduct, normA, normB) ==
    IF normA = DoubleZero \/ normB = DoubleZero THEN Returns(DoubleZero)
    ELSE Returns(DoubleQuotient(dotProduct, DoubleTimes(normA, normB)))

\* Lines 12-43 of the vector utilities, on vectors of integers.
cosineSimilarity(vecA, vecB) ==
    IF Len(vecA) # Len(vecB) THEN DimensionError
    ELSE IF Len(vecA) = 0 THEN Returns(DoubleZero)
    ELSE Ratio(DotProduct(vecA, vecB, Len(vecA)),
               DoubleSqrt(DotProduct(vecA, vecA, Len(vecA))),
               DoubleSqrt(DotProduct(vecB, vecB, Len(vecB))))

\* Array.prototype.slice(0, k): a negative k counts from the end.
SliceTo(s, k) ==
    IF k >= 0 THEN SubSeq(s, 1, Min(k, Len(s)))
    ELSE SubSeq(s, 1, Max(Len(s) + k, 0))

\* The comparator (a, b) => b.similarity - a.similarity is negative (a goes
\* first); with ascending set, the comparator a.similarity - b.similarity.
GoesFirst(a, b, ascending) ==
    IF ascending THEN DoubleLess(a.similarity.value, b.similarity.value)
    ELSE DoubleLess(b.similarity.value, a.similarity.value)

RECURSIVE SortBy(_, _, _)
\* Array.prototype.sort, which is stable, on the first n items of s: an item
\* is placed ahead of just the items it goes first of, so that items the
\* comparator does not order keep their order in s.
SortBy(s, n, ascending) ==
    IF n = 0 THEN <<>>
    ELSE LET sorted == SortBy(s, n - 1, ascending)
             ahead == {i \in 0..Len(sorted) :
                          \A j \in (i + 1)..Len(sorted) :
                              GoesFirst(s[n], sorted[j], ascending)}
             at == CHOOSE i \in ahead : \A j \in ahead : i <= j
         IN  SubSeq(sorted, 1, at) \o <<s[n]>> \o SubSeq(sorted, at + 1, Len(sorted))

\* Lines 73-78: the items that have an embedding, with their similarity.
ItemsWithScores(queryVector, items) ==
    LET kept == SelectSeq(items, LAMBDA item : Len(item.embedding) > 0)
    IN  AsSeq([i \in 1..Len(kept) |->
                 [id |-> kept[i].id, embedding |-> kept[i].embedding,
                  similarity |-> cosineSimilarity(queryVector, kept[i].embedding)]])

\* Lines 81-85: the scored items sorted and cut to k, unless a similarity
\* has thrown; with the items array after the call.
TopKOf(itemsWithScores, items, k, ascending) ==
    IF \E i \in 1..Len(itemsWithScores) : itemsWithScores[i].similarity.thrown
    THEN [thrown |-> TRUE, value |-> <<>>, items |-> items]
    ELSE [thrown |-> FALSE,
          value |-> SliceTo(SortBy(itemsWithScores, Len(itemsWithScores), ascending), k),
          items |-> items]

\* findTopKSimilar sorting by ascending similarity.
findTopKSimilarAscending(queryVector, items, k) ==
    TopKOf(ItemsWithScores(queryVector, items), items, k, TRUE)

\* Lines 67-86 of the vector utilities: what findTopKSimilar returns, or that
\* it throws, and the items array after the call.
findTopKSimilar(queryVector, items, k) ==
    TopKOf(ItemsWithScores(queryVector, items), items, k, FALSE)

\* Embeddings of items: none, unit vectors, a diagonal and its triple (whose
\* similarities to the diagonal round to either side of 1), the zero vector
\* and a vector of another dimension.
VectorPool ==
    {<<>>, <<1, 0>>, <<0, 1>>, <<1, 1>>, <<3, 3>>, <<0 - 1, 0>>, <<0, 0>>, <<1>>}

\* The item lists of at most n items, each with its position as its id.
ItemLists(n) ==
    UNION {{AsSeq([i \in 1..m |-> [id |-> i, embedding |-> e[i]]]) :
               e \in [1..m -> VectorPool]} : m \in 0..n}

\* The calls findTopKSimilar(queryVector, items, k).
TopKProbes ==
    {[fn |-> "findTopKSimilar", pc |-> "call", queryVector |-> q, items |-> l, k |-> k] :
        q \in {<<1, 0>>, <<1, 1>>, <<0, 0>>}, l \in ItemLists(MaxItems),
        k \in (0 - 1)..MaxTopK}

\* findTopKSimilar runs and returns or throws.
FindTopKSimilarCall ==
    /\ probe.fn = "findTopKSimilar" /\ probe.pc = "call"
    /\ probe' = [fn |-> "findTopKSimilar", pc |-> "done",
                 queryVector |-> probe.queryVector, items |-> probe.items,
                 k |-> probe.k,
                 result |-> findTopKSimilar(probe.queryVector, probe.items, probe.k)]
    /\ UNCHANGED <<chats, docs, nextId, uploads, call, reply, res, ingest, peer>>

\* The calls cosineSimilarity(vecA, vecB).
CosineProbes ==
    {[fn |-> "cosineSimilarity", pc |-> "call", vecA |-> a, vecB |-> b] :
        a \in VectorPool, b \in VectorPool}

\* cosineSimilarity runs and returns or throws.
CosineSimilarityCall ==
    /\ probe.fn = "cosineSimilarity" /\ probe.pc = "call"
    /\ probe' = [fn |-> "cosineSimilarity", pc |-> "done",
                 vecA |-> probe.vecA, vecB |-> probe.vecB,
                 result |-> cosineSimilarity(probe.vecA, probe.vecB)]
    /\ UNCHANGED <<chats, docs, nextId, uploads, call, reply, res, ingest, peer>>

\* The utility functions start from a call of one of them.
InitUtil ==
    /\ chats = <<>>
    /\ docs = {}
    /\ nextId = 1
    /\ uploads = 0
    /\ call = IdleCall
    /\ reply = NoReply
    /\ res = NoResponse
    /\ ingest = {}
    /\ peer = IdleCall
    /\ \/ probe \in CleanTextProbes
       \/ probe \in ChunkTextProbes
       \/ probe \in EmbeddingProbes
       \/ probe \in TopKProbes
       \/ probe \in CosineProbes

NextUtil ==
    \/ CleanTextCall
    \/ ChunkTextEnter
    \/ ChunkTextIterate
    \/ ChunkTextReturn
    \/ GenerateEmbeddingCall
    \/ FindTopKSimilarCall
    \/ CosineSimilarityCall

SpecUtil == InitUtil /\ [][NextUtil]_vars

\* ------------------------------------------------------------------------
\* Properties
\* ------------------------------------------------------------------------

\* The generation came back with a text that is not blank.
GenerationOk(r) ==
    r.kind = "text" /\ \E i \in 1..Len(r.text) : r.text[i] \notin WhiteSpace

\* The records of a store that are the active session (userId, sessionId).
ActiveOf(store, userId, sessionId) ==
    {i \in 1..Len(store) : /\ store[i].userId = userId
                           /\ store[i].sessionId = sessionId
                           /\ store[i].isActive}

\* The records of a store that belong to userId.
RecordsOf(store, userId) == {i \in 1..Len(store) : store[i].userId = userId}

\* The observed askQuestion is at the given position.
Asking(pcs) == call.op = "askQuestion" /\ call.pc \in pcs

\* This step is a step of the observed askQuestion from the given position.
Stepping(pcs) == Asking(pcs) /\ call' # call

\* This step is the save of the observed askQuestion and the store took it.
Persisting == Stepping({"save"}) /\ chats' # chats

\* No other request has created or deleted the active record of the session
\* since the observed askQuestion looked for it.
Undisturbed ==
    call.locals.chatHistory = FindActive(chats, call.user, call.locals.chatSessionId)

\* C1: when the history store works, an askQuestion of a user without records
\* that names no session creates exactly one record, active, and returns its
\* sessionId; an askQuestion that names the active session of its user appends
\* its two messages to that record and creates no record; both for an
\* askQuestion that no other request on the session overlaps.
C1_SessionContinuity ==
    [][ /\ (Asking({"save"}) /\ AskSave(TRUE)) => chats' # chats
        /\ (Persisting /\ Undisturbed) =>
             LET u == call.user
                 sid == call.locals.chatSessionId
                 mine == ActiveOf(chats, u, sid)
             IN  /\ res'.status = 200
                 /\ res'.data.sessionId = sid
                 /\ IF mine = {}
                    THEN /\ Len(chats') = Len(chats) + 1
                         /\ SubSeq(chats', 1, Len(chats)) = chats
                         /\ chats'[Len(chats')].userId = u
                         /\ chats'[Len(chats')].sessionId = sid
                         /\ chats'[Len(chats')].isActive
                         /\ Len(chats'[Len(chats')].messages) = 2
                         /\ RecordsOf(chats, u) = {} =>
                              Cardinality(RecordsOf(chats', u)) = 1
                    ELSE /\ Len(chats') = Len(chats)
                         /\ \E i \in mine :
                              /\ Len(chats'[i].messages) = Len(chats[i].messages) + 2
                              /\ SubSeq(chats'[i].messages, 1, Len(chats[i].messages))
                                   = chats[i].messages
                              /\ \A j \in 1..Len(chats) : j # i => chats'[j] = chats[j]
      ]_vars

\* A user whose only record holds two exchanges under the generated session
\* id the second response returns.
C1_Witness ==
    /\ Asking({"responding"}) /\ res.status = 200
    /\ res.data.sessionId = GeneratedSessionId(call.user, 0)
    /\ \E i \in 1..Len(chats) :
         /\ RecordsOf(chats, call.user) = {i}
         /\ chats[i].sessionId = res.data.sessionId
         /\ chats[i].isActive
         /\ Len(chats[i].messages) = 4

\* C2: a generation that fails (no key, an error of the provider, the
\* timeout, a blank text) ends askQuestion with a failure that carries no
\* answer, and the chat history is left as it was.
C2_GenerationFailureFails ==
    [][ /\ (Stepping({"generate"}) /\ ~GenerationOk(reply')) =>
             /\ call'.pc = "responding"
             /\ res'.status = 500
             /\ ~res'.success
             /\ res'.data = NoData
             /\ chats' = chats
        /\ (Stepping({"responding"}) /\ ~res.success) => chats' = chats
      ]_vars

\* The provider returned a blank text and the request failed.
C2_Witness ==
    /\ Asking({"responding"})
    /\ reply.kind = "text" /\ reply.text = AnswerBlank
    /\ res.status = 500 /\ chats = <<>>

\* C3: no failure of the retrieval ends the request: after an embedding that
\* failed and a text search that found nothing or threw, a generation that
\* succeeds gives a success response whose sources are empty.
C3_RetrievalFailureDegrades ==
    [][ /\ Stepping({"embed", "vector", "lexical"}) =>
             /\ call'.pc \in {"vector", "lexical", "generate"}
             /\ res' = res
        /\ \A out \in FindSimilarOutcomes(RetrievalLimit) :
             (AskLexical(out) /\ (out.threw \/ out.results = <<>>)) =>
                 call'.locals.relevantDocs = <<>>
        /\ (Stepping({"generate"}) /\ GenerationOk(reply')) =>
             /\ call'.pc = "find"
             /\ call'.locals.relevantDocs = call.locals.relevantDocs
        /\ (Asking({"find"}) /\ call'.pc = "save") =>
             call'.locals.relevantDocs = call.locals.relevantDocs
        /\ (Asking({"find", "save"}) /\ call'.pc = "responding") =>
             /\ res'.success
             /\ res'.status = 200
             /\ res'.data.sources = call.locals.relevantDocs
      ]_vars

\* The embedding failed, nothing was retrieved, and the answer is a success.
C3_Witness ==
    /\ Asking({"responding"})
    /\ reply.embedding = "failed"
    /\ res.status = 200 /\ res.success
    /\ res.data.sources = <<>>
    /\ res.data.answer = AnswerA

\* C4: once the generation has succeeded, askQuestion answers with status
\* 200, the generated answer, the resolved session id and the sources,
\* whether the chat history could be read and saved or not.
C4_PersistenceFailureSwallowed ==
    [][ Stepping({"find", "save"}) =>
          /\ call'.pc \in {"save", "responding"}
          /\ call'.pc = "responding" =>
               /\ res'.status = 200
               /\ res'.success
               /\ res'.error = ""
               /\ res'.data.answer = call.locals.aiResponse
               /\ res'.data.sessionId = call.locals.chatSessionId
               /\ res'.data.sources = call.locals.relevantDocs
      ]_vars

\* A success response for a session of which the store holds no record.
C4_Witness ==
    /\ Asking({"responding"})
    /\ res.status = 200
    /\ res.data.answer = AnswerA
    /\ \A i \in 1..Len(chats) : chats[i].sessionId # res.data.sessionId

\* One chunk promise is at its embedding and the embedding throws.
ChunkEmbeddingFails(task, c) ==
    ChunkEmbed(task, c.key, c.out) /\ ~generateEmbedding(c.key, c.out).ok

\* C5: in a chunked ingestion the failure of the embedding of one chunk does
\* not abort the ingestion: the upload is not answered with a failure and
\* the chunk goes on to be stored with an empty embedding.
C5_ChunkEmbeddingFailureTolerated ==
    [][ \A task \in ingest, c \in ServiceCalls(EmbeddingOutcomes) :
          ChunkEmbeddingFails(task, c) =>
              /\ ~(call'.pc = "responding" /\ ~res'.success)
              /\ \E t \in ingest' : /\ t.id = task.id
                                    /\ t.pc = "create"
                                    /\ t.embedding = <<>>
      ]_vars

\* C6: in an ingestion that is not chunked the failure of the embedding does
\* not fail the upload: the document goes on to be stored with an empty
\* embedding.
C6_EmbeddingFailureTolerated ==
    [][ \A c \in ServiceCalls(EmbeddingOutcomes) :
          (UploadEmbed(c.key, c.out) /\ ~generateEmbedding(c.key, c.out).ok) =>
              /\ ~(call'.pc = "responding" /\ ~res'.success)
              /\ call'.pc = "create"
              /\ call'.locals.queryEmbedding = <<>>
      ]_vars

\* C7 as stated: an askQuestion whose embedding found no key configured is
\* answered with a failure.
C7_ConfigurationFailurePropagates ==
    (Asking({"responding"}) /\ reply.embedding = "unconfigured") => ~res.success

\* C7: an askQuestion whose embedding found no key configured goes on without
\* an embedding to the text search and the generation, and is answered with a
\* success exactly when the generation succeeds.
C7_ConfigurationFailureDegrades ==
    (call.op = "askQuestion" /\ reply.embedding = "unconfigured") =>
        /\ call.pc \in {"lexical", "generate", "find", "save", "responding"}
        /\ call.pc # "responding" => call.locals.queryEmbedding = Null
        /\ call.pc = "responding" =>
             /\ reply.kind # "none"
             /\ res.success <=> GenerationOk(reply)

\* No embedding key was configured and the question is answered.
C7_Witness ==
    /\ Asking({"responding"})
    /\ reply.embedding = "unconfigured"
    /\ res.status = 200 /\ res.success
    /\ res.data.answer = AnswerA

\* C8 as stated: once a session (userId, sessionId) has been soft-deleted, no
\* active record of that (userId, sessionId) exists.
C8_NoActiveSessionAfterDelete ==
    \A i, j \in 1..Len(chats) :
        ~ /\ ~chats[i].isActive
          /\ chats[j].isActive
          /\ chats[j].userId = chats[i].userId
          /\ chats[j].sessionId = chats[i].sessionId

\* C8: a record goes from absent to active to inactive only: a record is
\* active when it is created, no step makes an inactive record active again
\* or removes it, the record askQuestion finds to continue is active when it
\* is found, and an inactive record is changed only by the save of an
\* askQuestion that had found it.
C8_DeletedRecordStaysDeleted ==
    [][ /\ Len(chats') >= Len(chats)
        /\ \A i \in 1..Len(chats) :
             /\ chats'[i].isActive => chats[i].isActive
             /\ (~chats[i].isActive /\ chats'[i] # chats[i]) =>
                  \/ Persisting /\ call.locals.chatHistory = i
                  \/ /\ peer.op = "askQuestion" /\ peer.pc = "save" /\ peer' # peer
                     /\ peer.locals.chatHistory = i
        /\ \A i \in (Len(chats) + 1)..Len(chats') : chats'[i].isActive
        /\ (Stepping({"find"}) /\ call'.locals.chatHistory # 0) =>
             chats[call'.locals.chatHistory].isActive
        /\ ( /\ peer.op = "askQuestion" /\ peer.pc = "find"
             /\ peer'.pc = "save" /\ peer'.locals.chatHistory # 0 ) =>
             chats[peer'.locals.chatHistory].isActive
      ]_vars

\* A soft-deleted record that kept its exchange, next to an active record of
\* the same user and session id that askQuestion created afterwards.
C8_Witness ==
    \E i, j \in 1..Len(chats) :
        /\ i < j
        /\ ~chats[i].isActive /\ Len(chats[i].messages) = 2
        /\ chats[j].isActive
        /\ chats[j].userId = chats[i].userId
        /\ chats[j].sessionId = chats[i].sessionId

\* C9: deleteChatSession on an active session of the caller clears the active
\* flag of that record and changes nothing else; where the caller has no such
\* active session it answers not found and changes nothing; getChatSession
\* returns only an active record of the caller, and getChatHistory returns
\* the records its find read, all of them active records of the caller then.
C9_SoftDelete ==
    [][ /\ (call.op = "idle" /\ call'.op = "deleteChatSession") =>
             /\ res'.status = 200 =>
                  \E i \in 1..Len(chats) :
                      /\ chats[i].isActive
                      /\ chats[i].userId = call'.user
                      /\ chats' = [chats EXCEPT ![i].isActive = FALSE]
             /\ res'.status # 200 => chats' = chats
        /\ \A r \in SessionRequests :
             ( /\ deleteChatSession(r.user, r.sessionId, r.storeOk)
               /\ Authenticated(r.user) /\ r.storeOk ) =>
                 IF ActiveOf(chats, r.user, r.sessionId) = {}
                 THEN res'.status = 404 /\ chats' = chats
                 ELSE res'.status = 200
        /\ \A r \in SessionRequests :
             ( /\ getChatSession(r.user, r.sessionId, r.storeOk)
               /\ Authenticated(r.user) /\ r.storeOk ) =>
                 IF ActiveOf(chats, r.user, r.sessionId) = {}
                 THEN res'.status = 404
                 ELSE /\ res'.status = 200
                      /\ res'.data.chatHistory.isActive
                      /\ res'.data.chatHistory.userId = r.user
                      /\ res'.data.chatHistory.sessionId = r.sessionId
        /\ (call.op = "getChatHistory" /\ call.pc = "find" /\ call'.pc = "count") =>
             \A k \in 1..Len(call'.locals.chatHistories) :
                 /\ call'.locals.chatHistories[k].isActive
                 /\ call'.locals.chatHistories[k].userId = call.user
                 /\ \E i \in 1..Len(chats) : chats[i] = call'.locals.chatHistories[k]
        /\ (call.op = "getChatHistory" /\ call.pc = "count" /\ res'.status = 200) =>
             res'.data.chatHistories = call.locals.chatHistories
        /\ ( /\ call' # call
             /\ \/ call.op \in {"getChatHistory", "getChatSession"}
                \/ call'.op \in {"getChatHistory", "getChatSession"} ) =>
             chats' = chats
      ]_vars

\* A second deleteChatSession is answered not found while the store holds the
\* soft-deleted record of the caller with its messages.
C9_Witness ==
    /\ call.op = "deleteChatSession" /\ call.pc = "responding"
    /\ res.status = 404
    /\ \E i \in 1..Len(chats) :
         /\ chats[i].userId = call.user
         /\ ~chats[i].isActive
         /\ Len(chats[i].messages) = 2
    /\ \A i \in 1..Len(chats) : ~chats[i].isActive

\* The messages of every record come in pairs, a user message then an
\* assistant message, and user messages carry no sources.
Paired(store) ==
    \A i \in 1..Len(store) :
        /\ Len(store[i].messages) % 2 = 0
        /\ \A k \in 1..Len(store[i].messages) :
             /\ store[i].messages[k].role = IF k % 2 = 1 THEN "user" ELSE "assistant"
             /\ store[i].messages[k].role = "user" =>
                  store[i].messages[k].sources = <<>>

\* C10: the message list of a record only grows, by the user message and the
\* assistant message of one exchange at a time, so that it always alternates
\* user, assistant and has even length; only assistant messages carry sources.
C10_MessagesAppendOnlyPaired ==
    [][ /\ Paired(chats')
        /\ Len(chats') >= Len(chats)
        /\ \A i \in 1..Len(chats) :
             /\ Len(chats'[i].messages) - Len(chats[i].messages) \in {0, 2}
             /\ SubSeq(chats'[i].messages, 1, Len(chats[i].messages)) = chats[i].messages
        /\ \A i \in (Len(chats) + 1)..Len(chats') : Len(chats'[i].messages) = 2
        /\ Persisting =>
             SumLen(chats', Len(chats')) = SumLen(chats, Len(chats)) + 2
      ]_vars

\* A record with two exchanges, one of them answered with a source.
C10_Witness ==
    \E i \in 1..Len(chats) :
        /\ Len(chats[i].messages) = 4
        /\ Len(chats[i].messages[2].sources) > 0
        /\ chats[i].messages[4].sources = <<>>

\* The document deleteDocument is deleting.
Deleting(pc) == call.op = "deleteDocument" /\ call.pc = pc

\* The stored documents that reference id as their parent.
ChildrenOf(store, id) == {d \in store : d.parentDocumentId = id}

\* A stored document that has chunks: isChunk is false and chunkCount > 0.
IsParent(d) == ~d.isChunk /\ d.chunkCount > 0

\* C11: when deleteDocument answers that the document is deleted, neither
\* the document nor any document that references it as its parent is in the
\* store, and the last step of the handler has removed the document only.
C11_DeleteRemovesFamily ==
    [][ (Deleting("one") /\ call'.pc = "responding" /\ res'.status = 200) =>
            /\ FindById(docs', call.locals.document) = {}
            /\ ChildrenOf(docs', call.locals.document) = {}
            /\ docs' = docs \ FindById(docs, call.locals.document)
      ]_vars

\* The chunk promises this step starts.
NewPromises == {t \in ingest' : \A s \in ingest : s.id # t.id}

\* C12: an ingestion is chunked exactly when the normalized content is longer
\* than 2000 characters: content of 2000 characters or fewer goes to one
\* embedding call and is stored as one standalone document (isChunk false,
\* no chunk count) without any chunk promise; longer content gets a parent
\* document with a chunk count and chunk promises.
C12_ChunkingThreshold ==
    [][ /\ (Quiet /\ call'.op \in UploadOps /\ call'.pc # "responding") =>
             /\ call'.pc = IF Len(call'.locals.cleanedContent) > 2000
                           THEN "parent" ELSE "embed"
             /\ call'.pc = "parent" <=> Len(call'.locals.chunks) > 0
             /\ NewPromises = {}
        /\ (call.op \in UploadOps /\ call.pc \in {"embed", "create"} /\ call' # call) =>
             /\ Len(call.locals.cleanedContent) <= 2000
             /\ call'.pc \in {"create", "responding"}
             /\ NewPromises = {}
        /\ \A d \in docs' \ docs :
             IF Len(d.content) <= 2000 /\ ~d.isChunk
             THEN /\ d.chunkCount = NoNumber /\ d.parentDocumentId = NoId
                  /\ ChildrenOf(docs', d.id) = {} /\ NewPromises = {}
                  /\ call' # call =>
                       /\ call.pc = "create" /\ call'.pc = "responding"
                       /\ res'.status = 201
                       /\ res'.data.document.chunksCreated = NoNumber
             ELSE IF ~d.isChunk
             THEN /\ d.chunkCount > 0 /\ d.embedding = <<>>
                  /\ Cardinality(NewPromises) = d.chunkCount
                  /\ \A t \in NewPromises : t.parentDocumentId = d.id
             ELSE \A p \in docs' : p.id = d.parentDocumentId => Len(p.content) > 2000
        /\ NewPromises # {} => call.op \in UploadOps /\ call.pc = "parent"
      ]_vars

\* Content of exactly 2000 normalized characters has been stored as one
\* standalone document with its embedding.
C12_Witness ==
    /\ call.op = "uploadDocument" /\ call.pc = "responding" /\ res.status = 201
    /\ ingest = {}
    /\ \E d \in docs :
         /\ docs = {d}
         /\ Len(d.content) = 2000
         /\ ~d.isChunk /\ d.chunkCount = NoNumber
         /\ Len(d.embedding) = EmbeddingDims

\* The store holds the parent document id with n chunks and exactly its n
\* chunk documents, numbered 0..n-1.
ChunkedDocumentStored(store, id, n) ==
    \E p \in store :
        /\ p.id = id /\ FindById(store, id) = {p}
        /\ ~p.isChunk /\ p.embedding = <<>> /\ p.chunkCount = n
        /\ Cardinality(ChildrenOf(store, id)) = n
        /\ \A d \in ChildrenOf(store, id) :
             /\ d.isChunk /\ d.chunkCount = n
             /\ d.chunkIndex \in 0..(n - 1)
             /\ d.title = ChunkTitle(p.title, d.chunkIndex + 1, n)
             /\ Len(d.embedding) = EmbeddingDims
        /\ \A i \in 0..(n - 1) :
             \E d \in ChildrenOf(store, id) : d.chunkIndex = i

\* The chunk documents that the promises have written, or are about to.
Written(promises) ==
    {NewChunkDocument(t) : t \in {s \in promises : s.pc \in {"create", "fulfilled"}}}

\* The documents are exactly the n chunk documents of the parent document id
\* with this title, numbered 0..n-1.
ChunksComplete(written, title, id, n) ==
    /\ Cardinality(written) = n
    /\ \A d \in written :
         /\ d.isChunk /\ d.parentDocumentId = id /\ d.chunkCount = n
         /\ d.chunkIndex \in 0..(n - 1)
         /\ d.title = Trim(ChunkTitle(title, d.chunkIndex + 1, n))
         /\ Len(d.embedding) = EmbeddingDims
    /\ \A i \in 0..(n - 1) : \E d \in written : d.chunkIndex = i

\* The handler answers a chunked ingestion with success in this step.
ChunkedSuccess ==
    /\ call.op \in UploadOps /\ call.pc = "await"
    /\ call'.pc = "responding" /\ res'.status = 201

\* C13 as stated: when a chunked ingestion answers with success and N
\* chunks, the store holds the parent document (empty embedding, isChunk
\* false, chunkCount N) and exactly N chunk documents of it, with chunkIndex
\* 0..N-1 once each and titled '<title> (Chunk i+1/N)'.
C13_StoreHoldsFamily ==
    [][ ChunkedSuccess =>
            ChunkedDocumentStored(docs', call.locals.document,
                                  res'.data.document.chunksCreated)
      ]_vars

\* What a chunked ingestion keeps of C13 under every interleaving: it first
\* writes the parent document (empty embedding, isChunk false, chunkCount N)
\* and only then starts the N chunk writes; each chunk write adds one chunk
\* document to the store; when the ingestion answers with success and N
\* chunks, the N writes have completed, none is pending, and the documents
\* written are exactly N chunk documents of the parent with chunkIndex
\* 0..N-1 once each, titled '<title> (Chunk i+1/N)'; the store holds no
\* other document that references the parent, and it holds the parent and
\* exactly these N chunks when no deleteDocument has removed the parent or
\* one of the chunks since it was written.
ChunkedIngestionOrdered ==
    [][ /\ (call.op \in UploadOps /\ call.pc = "parent" /\ call'.pc = "await") =>
             \E p \in docs' \ docs :
                 /\ docs' = docs \cup {p}
                 /\ p.id = call'.locals.document
                 /\ ~p.isChunk /\ p.embedding = <<>>
                 /\ p.chunkCount = Len(call.locals.chunks) /\ p.chunkCount > 0
                 /\ ChildrenOf(docs', p.id) = {}
                 /\ PromisesOf(ingest, p.id) = {}
                 /\ Cardinality(PromisesOf(ingest', p.id)) = p.chunkCount
                 /\ \A t \in PromisesOf(ingest', p.id) : t.pc = "embed"
        /\ \A d \in docs' \ docs :
             d.isChunk =>
                 /\ docs' = docs \cup {d}
                 /\ \E t \in ingest : /\ t.pc = "create" /\ d = NewChunkDocument(t)
                                      /\ \A s \in ingest' : s.id = t.id => ~Pending(s)
        /\ ChunkedSuccess =>
               LET id == call.locals.document
                   n == res'.data.document.chunksCreated
                   written == Written(PromisesOf(ingest, id))
               IN  /\ n > 0 /\ res'.data.document.id = id
                   /\ ChunksComplete(written, call.locals.title, id, n)
                   /\ docs' \ docs \subseteq written
                   /\ docs' \ docs # {}
                   /\ PromisesOf(ingest', id) = {}
                   /\ ChildrenOf(docs', id) \subseteq written
                   /\ (written \subseteq docs' /\ FindById(docs', id) # {}) =>
                          ChunkedDocumentStored(docs', id, n)
      ]_vars

\* The parent document of an ingestion of 3000 normalized characters.
LargeParents(store) == {d \in store : ~d.isChunk /\ Len(d.content) = 3000}

\* The text holds no white space, so that no sentence ends in it and no
\* window of it trims to a shorter or an empty chunk.
NoWhiteSpace(text) == \A i \in 1..Len(text) : text[i] \notin WhiteSpace

\* C14 as stated: the ingestion of 3000 normalized characters gives the
\* parent document 3 chunks.
C14_ThreeChunks ==
    \A p \in LargeParents(docs) : p.chunkCount = 3

\* C14: the ingestion of 3000 normalized characters that hold no white
\* space gives the parent document 5 chunks, cut at 0, 800, 1600, 2400 and
\* 2800 with lengths 1000, 1000, 1000, 600 and 200; when it answers with
\* success the store holds the parent and exactly these 5 chunk documents.
C14_FiveChunks ==
    /\ \A p \in {d \in LargeParents(docs) : NoWhiteSpace(d.content)} :
         /\ p.chunkCount = 5
         /\ \A d \in ChildrenOf(docs, p.id) :
              /\ d.chunkIndex \in 0..4
              /\ Len(d.content) = <<1000, 1000, 1000, 600, 200>>[d.chunkIndex + 1]
    /\ \A t \in ingest :
         /\ t.chunkCount = 5
         /\ t.chunk.startChar = <<0, 800, 1600, 2400, 2800>>[t.chunk.index + 1]
         /\ t.chunk.endChar = <<1000, 1800, 2600, 3000, 3000>>[t.chunk.index + 1]
    /\ ( /\ call.op \in UploadOps /\ call.pc = "responding"
         /\ res.status = 201 ) =>
           /\ res.data.document.chunksCreated = 5
           /\ ChunkedDocumentStored(docs, res.data.document.id, 5)

\* The ingestion of 3000 normalized characters has answered with success.
C14_Witness ==
    /\ call.op = "uploadDocument" /\ call.pc = "responding"
    /\ res.status = 201
    /\ \E p \in LargeParents(docs) : NoWhiteSpace(p.content)
    /\ Cardinality(docs) = 6

\* chunkText has been called on its own and is in its loop or has returned.
Chunking(pcs) == probe.fn = "chunkText" /\ probe.pc \in pcs

\* chunkText was called with 0 <= overlap < chunkSize.
OverlapBelowChunkSize == 0 <= probe.overlap /\ probe.overlap < probe.chunkSize

\* C15 as stated: for 0 <= overlap < chunkSize the while-loop of chunkText
\* runs at most ceil(len / (chunkSize - overlap)) times, len the length of the
\* cleaned text.
C15_IterationBound ==
    (Chunking({"loop", "done"}) /\ OverlapBelowChunkSize) =>
        probe.iterations <= CeilDiv(Len(probe.cleanedText),
                                    probe.chunkSize - probe.overlap)

\* C15: for 0 <= overlap < chunkSize the while-loop of chunkText moves the
\* cursor forward by at least one character in every iteration, so that it
\* ends after at most len iterations, len the length of the cleaned text.
C15_Terminates ==
    (Chunking({"loop", "done"}) /\ OverlapBelowChunkSize) =>
        /\ probe.iterations <= Len(probe.cleanedText)
        /\ probe.startChar >= probe.iterations
        /\ probe.pc = "done" =>
             \/ probe.iterations = 0 /\ Len(probe.cleanedText) <= probe.chunkSize
             \/ probe.iterations > 0 /\ probe.startChar >= Len(probe.cleanedText)

\* chunkText has returned after more iterations than
\* ceil(len / (chunkSize - overlap)): 4 characters, chunkSize 3, overlap 1.
C15_Witness ==
    /\ Chunking({"done"})
    /\ Len(probe.cleanedText) = 4 /\ probe.chunkSize = 3 /\ probe.overlap = 1
    /\ probe.iterations = 3

\* The positions of the cleaned text that no chunk covers.
Uncovered(cleanedText, chunks) ==
    {p \in 0..(Len(cleanedText) - 1) :
        \A i \in 1..Len(chunks) : ~(chunks[i].startChar <= p /\ p < chunks[i].endChar)}

\* C16 as stated: for a cleaned text longer than chunkSize the ranges of the
\* chunks leave no gap: the first starts at 0, each starts at or before the
\* end of the one before, and the last ends at the length of the text.
C16_NoGap ==
    (Chunking({"done"}) /\ Len(probe.cleanedText) > probe.chunkSize) =>
        /\ Len(probe.chunks) > 0
        /\ probe.chunks[1].startChar = 0
        /\ probe.chunks[Len(probe.chunks)].endChar = Len(probe.cleanedText)
        /\ \A i \in 1..(Len(probe.chunks) - 1) :
             probe.chunks[i + 1].startChar <= probe.chunks[i].endChar

\* C16: for a cleaned text longer than chunkSize the first chunk starts at
\* 0, the last ends at the length of the text, the chunks start at
\* increasing positions, and every position that no chunk covers holds a
\* whitespace character (a window that trims to nothing is not emitted).
C16_GapsAreWhitespace ==
    (Chunking({"done"}) /\ Len(probe.cleanedText) > probe.chunkSize) =>
        /\ Len(probe.chunks) > 0
        /\ probe.chunks = chunkText(probe.text, probe.chunkSize, probe.overlap)
        /\ probe.chunks[1].startChar = 0
        /\ probe.chunks[Len(probe.chunks)].endChar = Len(probe.cleanedText)
        /\ \A i \in 1..(Len(probe.chunks) - 1) :
             probe.chunks[i + 1].startChar > probe.chunks[i].startChar
        /\ \A i \in 1..Len(probe.chunks) :
             /\ probe.chunks[i].index = i - 1
             /\ probe.chunks[i].startChar < probe.chunks[i].endChar
             /\ probe.chunks[i].endChar <= Len(probe.cleanedText)
        /\ \A p \in Uncovered(probe.cleanedText, probe.chunks) :
             probe.cleanedText[p + 1] \in WhiteSpace

\* chunkText has returned chunks that leave a position uncovered.
C16_Witness ==
    /\ Chunking({"done"})
    /\ Len(probe.cleanedText) > probe.chunkSize
    /\ \E i \in 1..(Len(probe.chunks) - 1) :
         probe.chunks[i + 1].startChar > probe.chunks[i].endChar

\* C17: for a text whose cleaned length is at most chunkSize, chunkText
\* returns one chunk with index 0, startChar 0, endChar the cleaned length
\* and the cleaned text as its text, without entering the loop.
C17_SmallTextSingleChunk ==
    /\ (Chunking({"done"}) /\ Len(cleanText(probe.text)) <= probe.chunkSize) =>
         /\ probe.chunks = << [text |-> cleanText(probe.text), index |-> 0,
                               startChar |-> 0,
                               endChar |-> Len(cleanText(probe.text))] >>
         /\ probe.chunks = chunkText(probe.text, probe.chunkSize, probe.overlap)
         /\ probe.iterations = 0
    /\ Chunking({"loop"}) => Len(cleanText(probe.text)) > probe.chunkSize

\* chunkText has returned the single chunk of a text that normalization
\* shortened to exactly chunkSize characters.
C17_Witness ==
    /\ Chunking({"done"})
    /\ Len(probe.text) > probe.chunkSize
    /\ Len(cleanText(probe.text)) = probe.chunkSize
    /\ Len(probe.chunks) = 1
    /\ probe.chunks[1].endChar = probe.chunkSize

\* C18: cleanText applied to a text that cleanText returned returns it
\* unchanged, also for the cleaned text chunkText works on.
C18_CleanTextIdempotent ==
    /\ (probe.fn = "cleanText" /\ probe.pc = "done") =>
         cleanText(probe.result) = probe.result
    /\ Chunking({"loop", "done"}) =>
         cleanText(probe.cleanedText) = probe.cleanedText

\* cleanText has returned a text that differs from its argument, which held
\* a carriage return, blanks and newlines.
C18_Witness ==
    /\ probe.fn = "cleanText" /\ probe.pc = "done"
    /\ probe.result # probe.text
    /\ Len(probe.result) >= 3
    /\ \E i \in 1..Len(probe.text) : probe.text[i] = "\r"
    /\ \E i \in 1..Len(probe.result) : probe.result[i] = "\n"

\* generateEmbedding has been called on its own and has returned or thrown.
Embedded == probe.fn = "generateEmbedding" /\ probe.pc = "done"

\* The error of an embedding failure that has no message of its own.
EmbeddingFailure(cause) == "Failed to generate embedding: " \o cause

\* The causes of the embedding failures that have no message of their own.
EmbeddingFailureCauses ==
    {"VOYAGE_API_KEY is not configured", "Invalid response from Voyage AI",
     "Request failed with status code 500", "timeout of 30000ms exceeded"}
    \cup {"Invalid embedding dimensions: expected 1024, got " \o ToString(out.dims) :
             out \in EmbeddingOutcomes}

\* C19: generateEmbedding returns a vector of exactly 1024 numbers or throws
\* an error, and never returns null or a vector of another length: without
\* a credential, on a response without data or of another length, on HTTP
\* 401, on HTTP 429 and on any other failure it throws; HTTP 401 and HTTP 429
\* have each an error of their own, every other failure the generic
\* 'Failed to generate embedding: ...'.
C19_EmbeddingOrError ==
    Embedded =>
        LET r == probe.result
            out == probe.out
        IN  /\ r.ok <=> (probe.key /\ out.kind = "vector" /\ out.dims = 1024)
            /\ r.ok => Len(r.value) = 1024 /\ r.error = ""
            /\ ~r.ok => r.value = Null /\ r.error # ""
            /\ (probe.key /\ out.kind = "http" /\ out.status = 401) =>
                 r.error = "Voyage AI API key is invalid"
            /\ (probe.key /\ out.kind = "http" /\ out.status = 429) =>
                 r.error = "Voyage AI rate limit exceeded"
            /\ (~r.ok /\ ~(probe.key /\ out.kind = "http" /\ out.status \in {401, 429})) =>
                 /\ \E cause \in EmbeddingFailureCauses : r.error = EmbeddingFailure(cause)
                 /\ r.error \notin {"Voyage AI API key is invalid",
                                    "Voyage AI rate limit exceeded"}
            /\ ~probe.key =>
                 r.error = EmbeddingFailure("VOYAGE_API_KEY is not configured")

\* generateEmbedding has thrown on a response whose vector has 3 numbers.
C19_Witness ==
    /\ Embedded
    /\ probe.key /\ probe.out.kind = "vector" /\ probe.out.dims = 3
    /\ ~probe.result.ok
    /\ probe.result.error =
         EmbeddingFailure("Invalid embedding dimensions: expected 1024, got 3")

\* findTopKSimilar has been called on its own and has returned.
TopKReturned ==
    probe.fn = "findTopKSimilar" /\ probe.pc = "done" /\ ~probe.result.thrown

\* The number of items that have an embedding.
Embeddable(items) == Cardinality({i \in 1..Len(items) : Len(items[i].embedding) > 0})

\* findTopKSimilar has been called on its own and has returned or thrown.
TopKCalled == probe.fn = "findTopKSimilar" /\ probe.pc = "done"

\* An item has an embedding of another dimension than the query vector.
DimensionMismatch(queryVector, items) ==
    \E i \in 1..Len(items) :
        Len(items[i].embedding) > 0 /\ Len(items[i].embedding) # Len(queryVector)

\* The result r of findTopKSimilar is sorted by similarity, highest first.
SortedBySimilarity(r) ==
    \A i, j \in 1..Len(r) :
        i < j => ~DoubleLess(r[i].similarity.value, r[j].similarity.value)

\* The result holds only items of the list that have an embedding, each
\* with its cosine similarity to the query vector.
OnlyEmbedded(r, queryVector, items) ==
    \A i \in 1..Len(r) :
        /\ Len(r[i].embedding) > 0
        /\ r[i].id \in 1..Len(items)
        /\ r[i].embedding = items[r[i].id].embedding
        /\ r[i].similarity = cosineSimilarity(queryVector, r[i].embedding)

\* Items of equal similarity are in the order of the list.
InputOrderAmongEqual(r) ==
    \A i, j \in 1..Len(r) :
        ( /\ i < j
          /\ ~DoubleLess(r[j].similarity.value, r[i].similarity.value) ) =>
            r[i].id < r[j].id

\* C20 as stated: for every query vector, item list and k, findTopKSimilar
\* returns a result that is sorted by similarity, highest first, holds only
\* items that have an embedding, has at most min(k, number of items with an
\* embedding) items and keeps the order of the list among items of equal
\* similarity, and the list is the same after the call.
C20_ReturnsAtMostK ==
    TopKCalled =>
        /\ ~probe.result.thrown
        /\ SortedBySimilarity(probe.result.value)
        /\ OnlyEmbedded(probe.result.value, probe.queryVector, probe.items)
        /\ Len(probe.result.value) <= Min(probe.k, Embeddable(probe.items))
        /\ InputOrderAmongEqual(probe.result.value)
        /\ probe.result.items = probe.items

\* C20: when an item has an embedding of another dimension than the query
\* vector, findTopKSimilar throws; otherwise it returns a result that is
\* sorted by similarity, highest first, holds only items that have an
\* embedding, keeps the order of the list among items of equal similarity
\* and has at most min(k, number of items with an embedding) items for
\* k >= 0, and all but the last -k of the items with an embedding for k < 0;
\* the list is the same after the call.
C20_TopKSorted ==
    TopKCalled =>
        LET r == probe.result.value
            n == Embeddable(probe.items)
        IN  IF DimensionMismatch(probe.queryVector, probe.items)
            THEN probe.result.thrown /\ probe.result.items = probe.items
            ELSE /\ ~probe.result.thrown
                 /\ SortedBySimilarity(r)
                 /\ OnlyEmbedded(r, probe.queryVector, probe.items)
                 /\ InputOrderAmongEqual(r)
                 /\ probe.k >= 0 => Len(r) <= Min(probe.k, n)
                 /\ probe.k < 0 => Len(r) = Max(n + probe.k, 0)
                 /\ probe.result.items = probe.items

\* findTopKSimilar has returned the 2 most similar of 3 items: the third
\* item first, then the first item, which ties with the second.
C20_Witness ==
    /\ TopKReturned
    /\ probe.k = 2 /\ Len(probe.items) = 3
    /\ Len(probe.result.value) = 2
    /\ probe.result.value[1].id = 3
    /\ probe.result.value[2].id = 1
    /\ probe.items[1].embedding = probe.items[2].embedding

\* cosineSimilarity has returned or thrown.
CosineReturned == probe.fn = "cosineSimilarity" /\ probe.pc = "done"

\* Every component of the vector is 0: its magnitude is 0.
ZeroMagnitude(vec) == \A i \in 1..Len(vec) : vec[i] = 0

\* C21: cosineSimilarity(a, b) throws the dimension error for every pair of
\* vectors of different lengths; for vectors of one length it returns 0,
\* without an error, whenever that length is zero or either vector has zero
\* magnitude.
C21_DimensionErrorOrZero ==
    CosineReturned =>
        /\ Len(probe.vecA) # Len(probe.vecB) => probe.result = DimensionError
        /\ ( /\ Len(probe.vecA) = Len(probe.vecB)
             /\ \/ Len(probe.vecA) = 0
                \/ ZeroMagnitude(probe.vecA)
                \/ ZeroMagnitude(probe.vecB) ) => probe.result = Returns(DoubleZero)

\* cosineSimilarity has returned 0 for a zero vector and a vector that is
\* not zero.
C21_Witness ==
    /\ CosineReturned
    /\ probe.vecA = <<0, 0>>
    /\ probe.vecB = <<1, 1>>
    /\ probe.result = Returns(DoubleZero)

\* C22: a stored document is never changed: a document of the store that is
\* still there, under the same id, after a step of askQuestion, of an upload
\* and its chunk promises, of getDocuments, of deleteDocument or of a history
\* operation has the same content, embedding, isChunk, parentDocumentId,
\* chunkIndex, chunkCount and every other field; documents are only created
\* and deleted.
C22_DocumentsImmutable ==
    [][\A d \in docs : \A e \in docs' : e.id = d.id => e = d]_vars

\* The chat history is read after a question has been answered over a store
\* in which an upload has written a parent and its chunks and a
\* deleteDocument has removed one of the chunks.
C22_Witness ==
    /\ call.op = "getChatHistory" /\ call.pc = "responding"
    /\ res.status = 200
    /\ chats # <<>>
    /\ \E d \in docs :
         /\ IsParent(d)
         /\ ChildrenOf(docs, d.id) # {}
         /\ Cardinality(ChildrenOf(docs, d.id)) < d.chunkCount

\* The retrieval of the askQuestion being handled has finished.
RetrievalDone ==
    /\ call.op = "askQuestion"
    /\ call.pc \in {"generate", "find", "save", "responding"}
    /\ reply.embedding # "none"

\* No usable query embedding, or a vector search that threw or found nothing.
NeedsLexical ==
    \/ reply.embedding # "vector"
    \/ reply.vector \in {"threw", "empty"}

\* C23: in askQuestion the text search is called exactly when no usable
\* query embedding was obtained or the vector search yielded no result
\* (it found nothing or it threw); the vector search is called only with an
\* embedding, and when it yields a result, the text search is not called and
\* the documents given to the generation, and returned as sources, are
\* exactly the results of the vector search.
C23_LexicalFallback ==
    /\ Asking({"lexical"}) => ~reply.lexical /\ NeedsLexical
    /\ RetrievalDone =>
        /\ reply.lexical <=> NeedsLexical
        /\ reply.embedding # "vector" => reply.vector = "none"
        /\ reply.vector = "results" =>
            /\ ~reply.lexical
            /\ Len(reply.found) > 0
            /\ call.pc # "responding" => call.locals.relevantDocs = reply.found
            /\ (call.pc = "responding" /\ res.status = 200) =>
                   res.data.sources = reply.found

\* A question has been answered from the results of the vector search.
C23_Witness ==
    /\ Asking({"responding"})
    /\ res.status = 200
    /\ reply.vector = "results"
    /\ Len(res.data.sources) > 0

\* One of the two searches of the askQuestion being handled has returned.
Searched == reply.vector # "none" \/ reply.lexical

\* C24: within one askQuestion call the steps happen in the order embed,
\* retrieve, generate, persist: no search is made before the embedding step
\* has finished, the generation is not called before a search has returned,
\* the chat history is neither read nor written before the generation has
\* succeeded, and the answer is sent only after findOne or save has thrown
\* or save has returned.
C24_StepsInOrder ==
    call.op = "askQuestion" =>
        /\ call.pc = "embed" => reply = NoReply
        /\ call.pc \in {"vector", "lexical"} => reply.embedding # "none"
        /\ call.pc = "vector" => ~Searched
        /\ call.pc \in {"vector", "lexical", "generate"} =>
               reply.kind = "none" /\ reply.history = "none"
        /\ call.pc = "generate" => Searched
        /\ reply.kind # "none" => Searched
        /\ call.pc = "find" => GenerationOk(reply) /\ reply.history = "none"
        /\ call.pc = "save" => GenerationOk(reply) /\ reply.history = "read"
        /\ reply.history # "none" => GenerationOk(reply)
        /\ (call.pc = "responding" /\ res.status = 200) =>
               GenerationOk(reply) /\ reply.history \in {"saved", "failed"}

\* An answer has been sent after the text search, the generation and the
\* save.
C24_Witness ==
    /\ Asking({"responding"})
    /\ res.status = 200
    /\ reply.lexical
    /\ reply.history = "saved"

\* The step is one iteration of the while-loop of chunkText.
Iterating ==
    /\ Chunking({"loop"})
    /\ probe'.fn = "chunkText" /\ probe'.pc = "loop"
    /\ probe'.iterations = probe.iterations + 1

\* C25: in chunkText with 0 <= overlap < chunkSize every iteration of the
\* while-loop starts with the cursor inside the text and moves it strictly
\* forward: after a chunk is emitted the cursor is its end minus the overlap,
\* or its end when that does not pass the start of the chunk. The distance
\* to the end of the text decreases with every iteration, so the loop ends.
C25_CursorAdvances ==
    [][(Iterating /\ OverlapBelowChunkSize) =>
        /\ probe.startChar < Len(probe.cleanedText)
        /\ probe'.startChar > probe.startChar
        /\ Len(probe'.chunks) > Len(probe.chunks) =>
             LET last == probe'.chunks[Len(probe'.chunks)]
             IN  /\ last.startChar = probe.startChar
                 /\ probe'.startChar =
                      IF last.endChar - probe.overlap <= last.startChar
                      THEN last.endChar
                      ELSE last.endChar - probe.overlap]_vars

\* The cursor has been forced to the end of the chunk just emitted, and the
\* loop goes on.
C25_Witness ==
    /\ Chunking({"loop"})
    /\ probe.startChar < Len(probe.cleanedText)
    /\ Len(probe.chunks) > 0
    /\ LET last == probe.chunks[Len(probe.chunks)]
       IN  /\ last.endChar - probe.overlap <= last.startChar
           /\ probe.startChar = last.endChar

\* The active records of a user under a session id.
ActiveRecords(store, userId, sessionId) ==
    {i \in 1..Len(store) : /\ store[i].userId = userId
                           /\ store[i].sessionId = sessionId
                           /\ store[i].isActive}

\* C26 as stated: whatever the interleaving of the askQuestion calls of one
\* user with one session id, the store holds at most one active record for
\* that user and session id.
C26_OneActiveRecord ==
    \A u \in Users :
        Cardinality(ActiveRecords(chats, u, SharedSessionId)) <= 1

\* The user whose request the step belongs to.
Actor ==
    IF peer' # peer
    THEN IF peer.op = "idle" THEN peer'.user ELSE peer.user
    ELSE IF call.op = "idle" THEN call'.user ELSE call.user

\* C27: sessions are isolated per user. A step of askQuestion,
\* getChatHistory, getChatSession or deleteChatSession of a user leaves every
\* record of every other user as it is, adds records of that user only, and
\* the records a response carries are records of that user under the session
\* id asked for, also when the session id is that of a session of somebody
\* else.
C27_SessionsIsolated ==
    [][/\ Len(chats') >= Len(chats)
       /\ \A i \in 1..Len(chats) :
            chats[i].userId # Actor => chats'[i] = chats[i]
       /\ \A i \in (Len(chats) + 1)..Len(chats') : chats'[i].userId = Actor
       /\ (call.op = "idle" /\ call'.op = "getChatSession" /\ res'.status = 200) =>
            /\ res'.data.chatHistory.userId = call'.user
            /\ \E i \in 1..Len(chats) : chats[i] = res'.data.chatHistory
       /\ (call.op = "getChatHistory" /\ call.pc = "find" /\ call'.pc = "count") =>
            \A k \in 1..Len(call'.locals.chatHistories) :
                /\ call'.locals.chatHistories[k].userId = call.user
                /\ \E i \in 1..Len(chats) : chats[i] = call'.locals.chatHistories[k]
       /\ (call.op = "getChatHistory" /\ call.pc = "count" /\ res'.status = 200) =>
            /\ res'.data.chatHistories = call.locals.chatHistories
            /\ res'.data.pagination.total <= Cardinality(RecordsOf(chats, call.user))
       /\ (call.op = "idle" /\ call'.op = "deleteChatSession" /\ res'.status = 404) =>
            chats' = chats
      ]_vars

\* A user has asked under the session id of another user's session: the
\* store holds a record of each under that session id, both with their own
\* exchange.
C27_Witness ==
    \E i, j \in 1..Len(chats) :
        /\ chats[i].userId = "u1" /\ chats[j].userId = "u2"
        /\ chats[i].sessionId = chats[j].sessionId
        /\ Len(chats[i].messages) = 2 /\ Len(chats[j].messages) = 2

\* C28 as stated: whatever the interleaving of ingestions and deleteDocument
\* calls, every chunk document of the store references a parent document
\* that is in the store.
C28_NoOrphanChunk ==
    \A d \in docs : d.isChunk => \E p \in docs : p.id = d.parentDocumentId

\* No ingestion is in progress: no upload is being handled and no chunk
\* promise is pending.
NoIngestion == call.op \notin UploadOps /\ ingest = {}

\* C29 as stated: whenever no ingestion is in progress, the chunkCount of
\* every parent document is the number of stored chunk documents that
\* reference it.
C29_ChunkCountMatches ==
    NoIngestion =>
        \A p \in docs : IsParent(p) =>
            p.chunkCount = Cardinality(ChildrenOf(docs, p.id))

\* The source citations of lines 392-396 for a list of retrieved documents.
Citations(sources) ==
    [i \in 1..Len(sources) |->
        [documentId |-> sources[i].id, title |-> sources[i].title,
         category |-> sources[i].category]]

\* askQuestion has answered.
Answered == Asking({"responding"}) /\ res.status = 200

\* C30: the sources of every answer of askQuestion are at most 3, they are
\* the documents generateAIResponse was called with, in the same order, and
\* the assistant message that the save of the call appends to the session's
\* record cites the same documents in the same order.
C30_SourcesMatchCitations ==
    [][ /\ (Stepping({"find", "save"}) /\ call'.pc = "responding") =>
             /\ res'.status = 200
             /\ Len(res'.data.sources) <= RetrievalLimit
             /\ res'.data.sources = reply'.context
        /\ Persisting =>
             LET at == IF call.locals.chatHistory = 0 THEN Len(chats')
                       ELSE call.locals.chatHistory
                 last == chats'[at].messages[Len(chats'[at].messages)]
             IN  /\ Len(chats'[at].messages) >= 2
                 /\ at <= Len(chats) =>
                      Len(chats'[at].messages) = Len(chats[at].messages) + 2
                 /\ last.role = "assistant"
                 /\ last.content = res'.data.answer
                 /\ last.sources = Citations(res'.data.sources)
      ]_vars

\* An answer with three sources has been sent and saved over a knowledge
\* base of four documents.
C30_Witness ==
    /\ Answered
    /\ reply.history = "saved"
    /\ Len(res.data.sources) = RetrievalLimit
    /\ Cardinality(docs) > RetrievalLimit

====
